---------------------------- MODULE Spec2Model ----------------------------
(***************************************************************************)
(* State-machine model of the schlueter-thermostat adapter:                *)
(*   - OJClient (lib/oj-client.js): session, single-flight login,          *)
(*     re-login + retry once on 401/403;                                   *)
(*   - SchlueterThermostat (main adapter): onReady, pollOnce,              *)
(*     upsertThermostat, onStateChange, onUnload;                          *)
(*   - apply router (lib/apply-handlers.js) and the time helpers           *)
(*     (lib/time).                                                         *)
(*                                                                         *)
(* Execution model.  Node.js runs one macrotask (timer tick, state-change  *)
(* event, completed I/O) at a time and drains every promise continuation   *)
(* it made ready before the next macrotask starts.  Macrotask actions are  *)
(* therefore guarded by Quiescent (no continuation is ready); the          *)
(* continuations are separate actions that run from one real I/O await to  *)
(* the next.                                                               *)
(***************************************************************************)
EXTENDS Integers, Sequences, FiniteSets, TLC

----------------------------------------------------------------------------
(* Bounds of the model *)

MaxCmds == 2          \* concurrently running onStateChange invocations
MaxThermostats == 1   \* thermostats known to the cloud account
MaxLogins == 3        \* SignIn requests per run (startup login included)
MaxFails == 7         \* cap of pollFailCount in SpecPoll (the code has no limit)
MaxFailsCmd == 3      \* cap of pollFailCount in the specifications with commands
MaxDurHours == 2      \* staged durations 0..MaxDurHours hours (and the limits)
MaxTzHours == 2       \* thermostat offsets -MaxTzHours..MaxTzHours hours (and the limits)

(* Program constants *)

POLL_FAIL_THRESHOLD == 3
BaseIntervalSec == 60
GraceMs == 5000

POLL == 0
Cmds == 1..MaxCmds
Tasks == {POLL} \cup Cmds
Tids == 1..MaxThermostats
Gens == 1..MaxLogins

ErrKinds == {"net", "http5xx", "auth", "biz"}

Modes == {"schedule", "comfort", "manual", "boost", "eco", "vacation", "name", "bogus"}

\* a stored or cached boolean: "true" | "false"; anything else is no boolean
Tri(b) == IF b THEN "true" ELSE "false"
IsBool(x) == x \in {"true", "false"}

\* what a GroupContents response says about one thermostat
NoData == [online |-> FALSE, serial |-> ""]
ReadData == [online : BOOLEAN, serial : {"", "S"}]

VARIABLES
    \* ---- OJClient
    sessionId,      \* 0 = null, else the token (generation of the login that set it)
    loginInFlight,  \* 0 = null, else generation of the login _loginOnce is awaiting
    loginGen,       \* number of SignIn requests sent so far
    loginPending,   \* generations of the SignIn requests without a response
    call,           \* task -> state of the client call the task is in
    \* ---- adapter
    phase,          \* onReady: "init","login","setup","firstPoll","running","failed"
    infoConnection, \* state info.connection: "none" | "true" | "false"
    pollFailCount,
    pollInFlight,
    pollPromise,    \* "null" | "pending" | "settled"
    pollTimer,      \* "null" | "set" | "cleared"
    pollDelaySec,   \* delay the timer waits before the next tick (0 = no timer)
    unloading,
    upc,            \* onUnload: "idle" | "waiting" | "done"
    ppc,            \* position of the poll cycle
    pIdx,           \* thermostat the poll cycle is upserting
    pollData,       \* the response's record of the thermostat being upserted
    activeCycles,   \* number of poll cycles whose body has started and not ended
    \* ---- DeviceRegistry caches
    thermostatSerial,   \* thermostat -> "" | "S"
    lastOnline,         \* thermostat -> "undef" | "true" | "false"
    warnedOffline,      \* thermostat -> the offline warning was logged (unset = FALSE)
    \* ---- persistent store
    onlineState,        \* state <dev>.online: "none" | "true" | "false"
    objSerial,          \* device object: "none" (absent), else native.serialNumber "" | "S"
    \* ---- apply commands (onStateChange invocations)
    cmd,            \* slot -> state of the invocation
    control,        \* <<thermostat, mode>> -> state of apply.<mode>.apply
    \* ---- end time of a comfort/boost command
    nowMs,          \* Date.now() when the handler computes the end time
    rawDur,         \* staged value of apply.<mode>.durationMinutes
    tzSec,          \* thermostatTimeZoneSec[thermostatId]
    sentEnd,        \* ComfortEndTime / BoostEndTime of the update payload
    sentBy,         \* version of the apply router that computed it
    \* ---- one run of the apply router (lib/apply-handlers.js)
    ctxMode,        \* ctx.modeFolder
    ctxTid,         \* ctx.thermostatId
    nameCache,      \* thermostatNameCache[thermostatId] ("" = no entry)
    staged,         \* the states <dev>.apply.<mode>.* the handler reads
    sent,           \* the fields of the updateThermostat calls, in order
    rpc,            \* position of the handler: "start" | "update" | "done"
    rres,           \* how the router call ended ("none" while it runs)
    display,        \* the read-only states the handlers write back
    warns,          \* number of log.warn calls of the handler
    ctxControl,     \* the state ctx.id, the apply control that was written
    \* ---- end times of a read
    endRaw,         \* ComfortEndTime and BoostEndTime as the cloud sent them
    endShown,       \* endTime.comfort and endTime.boost as written
    \* ---- caches of upsertThermostat
    thermostatTimeZoneSec, \* thermostat -> the cached TimeZone (thousandths of a second)
    reads,          \* thermostat -> the records read for it so far, in order
    \* ---- the display name at the cloud and in a poll read
    cloudName,      \* ThermostatName as the cloud holds it
    readName,       \* ThermostatName in the response of the read of the running cycle
    renamedTo,      \* history: the name of the last name apply that succeeded
    \* ---- prefill of the staging fields
    applyStore,     \* staging field -> the kind of value the state store holds
    prefill,        \* position of prefillApplyNonDestructive / setIfEmpty
    \* ---- history
    sawOnline,      \* a thermostat upserted in the running cycle reported online
    degraded,       \* the last completed cycle failed to reach the cloud, or
                    \* reached no online thermostat
    lastEv          \* what the last step was, where a property needs it; else "step"

clientVars == <<sessionId, loginInFlight, loginGen, loginPending, call>>
loginVars == <<loginInFlight, loginGen, loginPending>>
connVars == <<infoConnection, pollFailCount>>
cycleVars == <<pollInFlight, pollPromise, ppc, pIdx, pollData, activeCycles,
               sawOnline, degraded>>
timerVars == <<pollTimer, pollDelaySec>>
regVars == <<thermostatSerial, lastOnline, warnedOffline>>
storeVars == <<onlineState, objSerial>>
applyVars == <<cmd, control>>
routerVars == <<ctxMode, ctxTid, nameCache, staged, sent, rpc, rres, display,
                warns, ctxControl>>
decodeVars == <<endRaw, endShown>>
cacheVars == <<thermostatTimeZoneSec, reads>>
renameVars == <<cloudName, readName, renamedTo>>
prefillVars == <<applyStore, prefill>>
codecVars == <<nowMs, rawDur, tzSec, sentEnd, sentBy, routerVars, decodeVars,
               cacheVars, renameVars, prefillVars>>

vars == <<sessionId, loginInFlight, loginGen, loginPending, call,
          phase, infoConnection, pollFailCount, pollInFlight,
          pollPromise, pollTimer, pollDelaySec, unloading, upc, ppc, pIdx,
          pollData, activeCycles, thermostatSerial, lastOnline, warnedOffline,
          onlineState,
          objSerial, cmd, control, nowMs, rawDur, tzSec, sentEnd, sentBy,
          ctxMode, ctxTid, nameCache, staged, sent, rpc, rres, display, warns,
          ctxControl, endRaw, endShown, thermostatTimeZoneSec, reads,
          cloudName, readName, renamedTo, applyStore, prefill,
          sawOnline, degraded, lastEv>>

----------------------------------------------------------------------------
(* OJClient *)

\* State of the client call a task is in.
\* pc: "none" | "awaitLogin" (in ensureSession) | "awaitResp" (request sent)
\*     | "awaitRelogin" (in the catch block) | "ok" | "err" (settled)
\* gen: the login awaited; tok: sessionid parameter of the request in flight;
\* att: runs of the request function; err: the error thrown / kept for rethrow
\* acc: requests of the call that the cloud has carried out
NoCall == [pc |-> "none", gen |-> 0, tok |-> 0, att |-> 0, err |-> "none",
           acc |-> 0]

\* _loginOnce without the in-flight test
JoinInFlight_Never == FALSE

\* _loginOnce: `if (this._loginInFlight) return this._loginInFlight`
JoinInFlight == loginInFlight # 0

\* generation of the login the caller of _loginOnce awaits
GenToAwait == IF JoinInFlight THEN loginInFlight ELSE loginGen + 1

\* _loginOnce(): join the in-flight login or send a SignIn request
LoginOnce ==
    IF JoinInFlight
    THEN UNCHANGED loginVars
    ELSE /\ loginGen < MaxLogins
         /\ loginGen' = loginGen + 1
         /\ loginInFlight' = loginGen + 1
         /\ loginPending' = loginPending \cup {loginGen + 1}

\* ensureSession(): `if (!this.sessionId) await this._loginOnce()`
NeedsLogin == sessionId = 0

\* A task enters getGroupContents / updateThermostat / getEnergyUsage:
\* ensureSession(), then the request function is run by _withReloginRetry.
CallStart(k) ==
    /\ IF NeedsLogin
       THEN /\ LoginOnce
            /\ call' = [call EXCEPT ![k] = [NoCall EXCEPT !.pc = "awaitLogin",
                                                          !.gen = GenToAwait]]
       ELSE /\ UNCHANGED loginVars
            /\ call' = [call EXCEPT ![k] = [NoCall EXCEPT !.pc = "awaitResp",
                                                          !.tok = sessionId,
                                                          !.att = 1]]
    /\ UNCHANGED sessionId

\* the call has settled: the continuation of the caller is ready
CallReady(k) == call[k].pc \in {"ok", "err"}

\* ensureSession() resumes after the login (session sid): the request is sent
\* with the session id, or the login error is thrown to the caller
EnsureResumed(c, outcome, sid) ==
    IF outcome = "ok"
    THEN [c EXCEPT !.pc = "awaitResp", !.tok = sid, !.att = 1, !.gen = 0]
    ELSE [c EXCEPT !.pc = "err", !.err = outcome, !.gen = 0]

\* a retry that sends the request again as it was built for the first run
ReloginResumed_SameRequest(c, outcome, sid) ==
    IF outcome = "ok"
    THEN [c EXCEPT !.pc = "awaitResp", !.att = @ + 1, !.gen = 0, !.err = "none"]
    ELSE [c EXCEPT !.pc = "err", !.gen = 0]

\* a catch block that lets the error of the failed login through
ReloginResumed_LoginError(c, outcome, sid) ==
    IF outcome = "ok"
    THEN [c EXCEPT !.pc = "awaitResp", !.tok = sid, !.att = @ + 1, !.gen = 0,
                   !.err = "none"]
    ELSE [c EXCEPT !.pc = "err", !.gen = 0, !.err = outcome]

\* _withReloginRetry after `await this._loginOnce()`: retry once, or rethrow err
ReloginResumed(c, outcome, sid) ==
    IF outcome = "ok"
    THEN [c EXCEPT !.pc = "awaitResp", !.tok = sid, !.att = @ + 1, !.gen = 0,
                   !.err = "none"]
    ELSE [c EXCEPT !.pc = "err", !.gen = 0]

\* a catch block that also covers the retried request
InTryBlock_Always(k) == TRUE

\* the failed request ran in the try block (not the retry in the catch block)
InTryBlock(k) == call[k].att = 1

\* every failed request taken for an expired session
IsExpiry_Any(kind) == kind \in ErrKinds

\* a lost response taken for an expired session as well
IsExpiry_OrLost(kind) == kind \in {"auth", "net"}

\* _withReloginRetry catch: `status === 401 || status === 403`
IsExpiry(kind) == kind = "auth"

\* How many times the cloud has carried out a request when its outcome
\* reaches the client: once when it answers with success; not at all when it
\* rejects it (401/403, 5xx, vendor error code); and a device update whose
\* response is lost (network error, timeout) may or may not have been written.
Carried(k, outcome) ==
    IF outcome = "ok" THEN {1}
    ELSE IF outcome = "net" /\ k \in Cmds THEN {0, 1}
    ELSE {0}

\* _withReloginRetry: the response of the request function arrives
RespHandled(k, outcome) ==
    /\ call[k].pc = "awaitResp"
    /\ \E n \in Carried(k, outcome) :
        IF outcome = "ok"
        THEN /\ call' = [call EXCEPT ![k] = [@ EXCEPT !.pc = "ok", !.tok = 0,
                                                      !.acc = @ + n]]
             /\ UNCHANGED <<sessionId, loginVars>>
        ELSE IF IsExpiry(outcome) /\ InTryBlock(k)
        THEN \* invalidate the session, re-login once
             /\ sessionId' = 0
             /\ LoginOnce
             /\ call' = [call EXCEPT ![k] = [@ EXCEPT !.pc = "awaitRelogin",
                                                      !.gen = GenToAwait,
                                                      !.tok = 0,
                                                      !.err = outcome,
                                                      !.acc = @ + n]]
        ELSE /\ call' = [call EXCEPT ![k] = [@ EXCEPT !.pc = "err", !.tok = 0,
                                                      !.err = outcome,
                                                      !.acc = @ + n]]
             /\ UNCHANGED <<sessionId, loginVars>>

\* login(): the SignIn response arrives; on success the session id is stored;
\* _loginOnce's finally clears the marker; the promise settles and every task
\* that awaits it resumes before the next event is taken
LoginSettle(g, outcome) ==
    /\ g \in loginPending
    /\ loginPending' = loginPending \ {g}
    /\ sessionId' = IF outcome = "ok" THEN g ELSE sessionId
    /\ loginInFlight' = IF loginInFlight = g THEN 0 ELSE loginInFlight
    /\ call' = [k \in Tasks |->
                  IF call[k].gen # g THEN call[k]
                  ELSE IF call[k].pc = "awaitLogin"
                       THEN EnsureResumed(call[k], outcome, g)
                       ELSE ReloginResumed(call[k], outcome, g)]
    /\ UNCHANGED loginGen

----------------------------------------------------------------------------
(* Adapter helpers *)

\* a classification that takes every error for a communication error
IsCommError_Any(kind) == kind \in ErrKinds

\* _isCommError(err): network words in the message, status >= 500, 401, 403
IsCommError(kind) == kind \in {"net", "http5xx", "auth"}

\* the guard without the in-flight test
PollGuardBlocks_NoInFlight == unloading

\* pollOnce(): `if (this.unloading || this.pollInFlight) return`
PollGuardBlocks == unloading \/ pollInFlight

\* a continuation is ready to run (promise already settled)
PollReady ==
    \/ ppc \in {"read", "energy"} /\ CallReady(POLL)
    \/ phase = "firstPoll" /\ ppc = "idle"
    \/ upc = "waiting" /\ pollPromise = "settled"

CmdReady(c) == cmd[c].pc = "update" /\ CallReady(c)

Quiescent == ~PollReady /\ \A c \in Cmds : ~CmdReady(c)

\* the process has exited (unload callback was called)
Terminated == upc = "done"

\* a macrotask may be taken from the event loop
Idle == ~Terminated /\ Quiescent

----------------------------------------------------------------------------
(* Cloud *)

\* outcomes the cloud can give to an authenticated request: the session may
\* have expired at any time; a request without a session id is rejected
RespOutcomes(tok) ==
    IF tok # 0 THEN {"ok", "net", "http5xx", "biz", "auth"} ELSE {"auth", "net"}

LoginOutcomes == {"ok", "net", "biz"}

\* the SignIn response arrives (for onReady's own login() see OnReadyLoginDone)
LoginResp(g, outcome) ==
    /\ Idle
    /\ phase # "login"
    /\ LoginSettle(g, outcome)
    /\ lastEv' = "step"
    /\ UNCHANGED <<phase, connVars, cycleVars, timerVars,
                   unloading, upc, regVars, storeVars, applyVars>>
    /\ UNCHANGED codecVars

\* the response of a task's authenticated request arrives
HttpResp(k, outcome) ==
    /\ Idle
    /\ call[k].pc = "awaitResp"
    /\ outcome \in RespOutcomes(call[k].tok)
    /\ RespHandled(k, outcome)
    /\ lastEv' = "step"
    /\ UNCHANGED <<phase, connVars, cycleVars, timerVars,
                   unloading, upc, regVars, storeVars, applyVars>>
    /\ UNCHANGED codecVars

----------------------------------------------------------------------------
(* onReady *)

\* onReady(): info.connection=false, create the client, `await client.login()`
OnReady ==
    /\ Idle
    /\ phase = "init"
    /\ infoConnection' = "false"
    /\ loginGen' = loginGen + 1
    /\ loginPending' = loginPending \cup {loginGen + 1}
    /\ phase' = "login"
    /\ lastEv' = "step"
    /\ UNCHANGED <<sessionId, loginInFlight, call, pollFailCount,
                   cycleVars, timerVars, unloading, upc, regVars,
                   storeVars, applyVars>>
    /\ UNCHANGED codecVars

\* onReady() after login(): connection=true and go on, or log the error and
\* return (no poll, no timer)
OnReadyLoginDone(outcome) ==
    /\ Idle
    /\ phase = "login"
    /\ LoginSettle(1, outcome)
    /\ IF outcome = "ok"
       THEN infoConnection' = "true" /\ phase' = "setup"
       ELSE infoConnection' = infoConnection /\ phase' = "failed"
    /\ lastEv' = "step"
    /\ UNCHANGED <<pollFailCount, cycleVars,
                   timerVars, unloading, upc, regVars, storeVars, applyVars>>
    /\ UNCHANGED codecVars

----------------------------------------------------------------------------
(* pollOnce *)

\* pollOnce(): return at the guard, or mark in flight and call getGroupContents
PollOnce ==
    IF PollGuardBlocks
    THEN UNCHANGED <<cycleVars, clientVars>>
    ELSE /\ pollInFlight' = TRUE
         /\ pollPromise' = "pending"
         /\ activeCycles' = activeCycles + 1
         /\ ppc' = "read"
         /\ sawOnline' = FALSE
         /\ UNCHANGED <<pIdx, pollData, degraded>>
         /\ CallStart(POLL)

\* a cycle end without the .finally handler: the marker is left as it is
PollFinish_NoRelease(how) ==
    /\ pollInFlight' = pollInFlight
    /\ pollPromise' = "settled"
    /\ activeCycles' = activeCycles - 1
    /\ ppc' = "idle"
    /\ pIdx' = 0
    /\ pollData' = NoData
    /\ sawOnline' = FALSE
    /\ degraded' = IF how = "keep" THEN degraded ELSE how = "bad"

\* .finally(() => { this.pollInFlight = false }); how: "bad" | "good" | "keep"
PollFinish(how) ==
    /\ pollInFlight' = FALSE
    /\ pollPromise' = "settled"
    /\ activeCycles' = activeCycles - 1
    /\ ppc' = "idle"
    /\ pIdx' = 0
    /\ pollData' = NoData
    /\ sawOnline' = FALSE
    /\ degraded' = IF how = "keep" THEN degraded ELSE how = "bad"

\* upsertThermostat up to its first await: cache the mappings
UpsertBegin(t, data) ==
    thermostatSerial' = [thermostatSerial EXCEPT ![t] =
                            IF data.serial # "" THEN data.serial ELSE @]

\* the loop over the thermostats: upsert the next one, or end the cycle
NextThermostat(t) ==
    IF t \in Tids /\ ~unloading
    THEN /\ \E data \in ReadData :
                /\ pollData' = data
                /\ sawOnline' = (sawOnline \/ data.online)
                /\ UpsertBegin(t, data)
         /\ pIdx' = t
         /\ ppc' = "objIO"
         /\ UNCHANGED <<pollInFlight, pollPromise, activeCycles, degraded>>
    ELSE /\ PollFinish(IF unloading THEN "keep"
                       ELSE IF sawOnline THEN "good" ELSE "bad")
         /\ UNCHANGED thermostatSerial

\* onReady(): `await this.pollOnce()` once the objects are set up
OnReadySetupDone ==
    /\ Idle
    /\ phase = "setup"
    /\ PollOnce
    /\ phase' = "firstPoll"
    /\ lastEv' = "step"
    /\ UNCHANGED <<connVars, timerVars, unloading, upc, regVars,
                   storeVars, applyVars>>
    /\ UNCHANGED codecVars

\* onReady() after the first poll: subscribe the apply buttons, start the timer
OnReadyPollDone ==
    /\ ~Terminated
    /\ phase = "firstPoll"
    /\ ppc = "idle"
    /\ phase' = "running"
    /\ pollTimer' = "set"
    /\ pollDelaySec' = BaseIntervalSec
    /\ lastEv' = "step"
    /\ UNCHANGED <<clientVars, connVars, cycleVars, unloading, upc,
                   regVars, storeVars, applyVars>>
    /\ UNCHANGED codecVars

\* the interval timer fires: pollOnce()
Tick(cap) ==
    /\ Idle
    /\ pollTimer = "set"
    /\ pollFailCount < cap
    /\ PollOnce
    /\ lastEv' = IF PollGuardBlocks THEN "tickDropped" ELSE "tickStarted"
    /\ UNCHANGED <<phase, connVars, timerVars, unloading, upc,
                   regVars, storeVars, applyVars>>
    /\ UNCHANGED codecVars

\* getGroupContents() returned: mark connected, reset the fail counter, loop
PollReadOk ==
    /\ ~Terminated
    /\ ppc = "read"
    /\ call[POLL].pc = "ok"
    /\ infoConnection' = "true"
    /\ pollFailCount' = 0
    /\ call' = [call EXCEPT ![POLL] = NoCall]
    /\ IF unloading
       THEN PollFinish("keep")
       ELSE /\ ppc' = "grpIO"
            /\ UNCHANGED <<pollInFlight, pollPromise, pIdx, pollData, activeCycles,
                           sawOnline, degraded>>
    /\ lastEv' = "pollReadOk"
    /\ UNCHANGED <<sessionId, loginVars, phase, timerVars, unloading,
                   upc, regVars, storeVars, applyVars>>
    /\ UNCHANGED codecVars

\* getGroupContents() threw: the .catch handler, then .finally
PollReadFailed ==
    /\ ~Terminated
    /\ ppc = "read"
    /\ call[POLL].pc = "err"
    /\ IF unloading \/ ~IsCommError(call[POLL].err)
       THEN UNCHANGED connVars
       ELSE /\ pollFailCount' = pollFailCount + 1
            /\ IF pollFailCount + 1 >= POLL_FAIL_THRESHOLD
               THEN infoConnection' = "false"
               ELSE UNCHANGED infoConnection
    /\ call' = [call EXCEPT ![POLL] = NoCall]
    /\ PollFinish(IF unloading \/ ~IsCommError(call[POLL].err) THEN "keep" ELSE "bad")
    /\ lastEv' = IF IsCommError(call[POLL].err) THEN "pollCommFail" ELSE "pollOtherFail"
    /\ UNCHANGED <<sessionId, loginVars, phase, timerVars, unloading,
                   upc, regVars, storeVars, applyVars>>
    /\ UNCHANGED codecVars

\* ensureGroupObjects() finished: first thermostat of the group
PollGroupIO ==
    /\ Idle
    /\ ppc = "grpIO"
    /\ NextThermostat(1)
    /\ lastEv' = "step"
    /\ UNCHANGED <<clientVars, phase, connVars, timerVars, unloading,
                   upc, lastOnline, warnedOffline, storeVars, applyVars>>
    /\ UNCHANGED codecVars

\* `prevOnline === true && onlineNow === false && !this.warnedOffline[id]`
OfflineWarning(prevOnline, onlineNow, warned) ==
    prevOnline = "true" /\ ~onlineNow /\ ~warned

\* a flag that is never reset when the thermostat is online again
WarnedAfter_NoReset(prevOnline, onlineNow, warned) ==
    warned \/ OfflineWarning(prevOnline, onlineNow, warned)

\* warnedOffline[id] after the warning block and `if (onlineNow === true)`
WarnedAfter(prevOnline, onlineNow, warned) ==
    IF onlineNow THEN FALSE
    ELSE warned \/ OfflineWarning(prevOnline, onlineNow, warned)

\* ensureThermostatObjects()..deleteOldWritableStates() finished: the online
\* bookkeeping and writeThermostatStates(), then prefill awaits the store
PollObjectsIO ==
    /\ Idle
    /\ ppc = "objIO"
    /\ objSerial' = [objSerial EXCEPT ![pIdx] =
                        IF @ = "none" THEN pollData.serial ELSE @]
    /\ warnedOffline' = [warnedOffline EXCEPT ![pIdx] =
                            WarnedAfter(lastOnline[pIdx], pollData.online, @)]
    /\ lastOnline' = [lastOnline EXCEPT ![pIdx] = Tri(pollData.online)]
    /\ onlineState' = [onlineState EXCEPT ![pIdx] = Tri(pollData.online)]
    /\ ppc' = "prefillIO"
    /\ lastEv' = IF OfflineWarning(lastOnline[pIdx], pollData.online,
                                   warnedOffline[pIdx])
                 THEN "offlineWarning" ELSE "step"
    /\ UNCHANGED <<clientVars, phase, connVars, pollInFlight,
                   pollPromise, pIdx, pollData, activeCycles, sawOnline, degraded,
                   timerVars, unloading, upc, thermostatSerial, applyVars>>
    /\ UNCHANGED codecVars

\* prefill and schedule finished: energy read if the read carried a serial
PollPrefillIO ==
    /\ Idle
    /\ ppc = "prefillIO"
    /\ IF pollData.serial # ""
       THEN /\ CallStart(POLL)
            /\ ppc' = "energy"
            /\ UNCHANGED <<pollInFlight, pollPromise, pIdx, pollData, activeCycles,
                           sawOnline, degraded, thermostatSerial>>
       ELSE /\ NextThermostat(pIdx + 1)
            /\ UNCHANGED clientVars
    /\ lastEv' = "step"
    /\ UNCHANGED <<phase, connVars, timerVars, unloading, upc,
                   lastOnline, warnedOffline, storeVars, applyVars>>
    /\ UNCHANGED codecVars

\* writeEnergyStates() without its try/catch: the error of getEnergyUsage
\* reaches the .catch handler of the cycle
PollEnergyDone_Propagates ==
    /\ ~Terminated
    /\ ppc = "energy"
    /\ call[POLL].pc \in {"ok", "err"}
    /\ call' = [call EXCEPT ![POLL] = NoCall]
    /\ IF call[POLL].pc = "err"
       THEN /\ pollFailCount' = pollFailCount + 1
            /\ infoConnection' = IF pollFailCount + 1 >= POLL_FAIL_THRESHOLD
                                 THEN "false" ELSE infoConnection
            /\ PollFinish("bad")
            /\ UNCHANGED thermostatSerial
            /\ lastEv' = "pollCommFail"
       ELSE /\ NextThermostat(pIdx + 1)
            /\ lastEv' = "step"
            /\ UNCHANGED connVars
    /\ UNCHANGED <<sessionId, loginVars, phase, timerVars,
                   unloading, upc, lastOnline, warnedOffline, storeVars, applyVars>>
    /\ UNCHANGED codecVars

\* writeEnergyStates(): result written or error swallowed; next thermostat
PollEnergyDone ==
    /\ ~Terminated
    /\ ppc = "energy"
    /\ call[POLL].pc \in {"ok", "err"}
    /\ call' = [call EXCEPT ![POLL] = NoCall]
    /\ NextThermostat(pIdx + 1)
    /\ lastEv' = IF call[POLL].pc = "err" THEN "energyUnavailable" ELSE "step"
    /\ UNCHANGED <<sessionId, loginVars, phase, connVars, timerVars,
                   unloading, upc, lastOnline, warnedOffline, storeVars, applyVars>>
    /\ UNCHANGED codecVars

----------------------------------------------------------------------------
(* onUnload *)

\* onUnload(): stop the timer, wait for the in-flight poll (best effort)
Unload ==
    /\ Idle
    /\ upc = "idle"
    /\ unloading' = TRUE
    /\ pollTimer' = IF pollTimer = "set" THEN "cleared" ELSE pollTimer
    /\ upc' = IF pollPromise = "null" THEN "done" ELSE "waiting"
    /\ lastEv' = "unload"
    /\ UNCHANGED <<clientVars, phase, connVars, cycleVars,
                   pollDelaySec, regVars, storeVars, applyVars>>
    /\ UNCHANGED codecVars

\* a race with the poll promise alone, without the timer
RaceSettles_PollOnly == pollPromise = "settled"

\* Promise.race([p, new Promise(resolve => setTimeout(resolve, 5000))]) can
\* settle: the poll promise has settled, or the timer may fire (a macrotask)
RaceSettles == pollPromise = "settled" \/ Quiescent

\* Promise.race settles: the poll promise settled, or the 5 s timer fired
UnloadRaceDone ==
    /\ upc = "waiting"
    /\ RaceSettles
    /\ upc' = "done"
    /\ lastEv' = IF pollPromise = "settled" THEN "unloadPoll" ELSE "unloadGrace"
    /\ UNCHANGED <<clientVars, phase, connVars, cycleVars, timerVars,
                   unloading, regVars, storeVars, applyVars>>
    /\ UNCHANGED codecVars

----------------------------------------------------------------------------
(* onStateChange: apply commands *)

\* calls: updateThermostat calls the invocation has made
IdleCmd == [pc |-> "idle", tid |-> 0, mode |-> "none", calls |-> 0]

Released == [val |-> FALSE, ack |-> TRUE]

\* the lowest free invocation slot
FreeSlot(c) == cmd[c].pc = "idle" /\ \A d \in Cmds : d < c => cmd[d].pc # "idle"

\* the reset in the try block only: skipped when the router throws
ApplyEnd_NotOnThrow(c, res) ==
    /\ control' = IF res \in {"applyRejected", "applyCommFailed"} THEN control
                  ELSE [control EXCEPT ![<<cmd[c].tid, cmd[c].mode>>] = Released]
    /\ cmd' = [cmd EXCEPT ![c] = IdleCmd]
    /\ lastEv' = res

\* `this.safeSetState(id, { val: false, ack: true })` and the handler returns
ApplyEnd(c, res) ==
    /\ control' = [control EXCEPT ![<<cmd[c].tid, cmd[c].mode>>] = Released]
    /\ cmd' = [cmd EXCEPT ![c] = IdleCmd]
    /\ lastEv' = res

\* handlers that read no staged input before updateThermostat
DirectModes == {"schedule", "eco"}

\* a handler table with an entry for every mode folder
KnownModes_All == Modes

\* the keys of `handlers`
KnownModes == Modes \ {"bogus"}

\* applyRouter(ctx): look the handler up and run it to its first await
Route(c) ==
    IF cmd[c].mode \notin KnownModes
    THEN /\ ApplyEnd(c, "ignored")
         /\ UNCHANGED clientVars
    ELSE IF cmd[c].mode \in DirectModes
    THEN /\ CallStart(c)
         /\ cmd' = [cmd EXCEPT ![c].pc = "update", ![c].calls = @ + 1]
         /\ lastEv' = "step"
         /\ UNCHANGED control
    ELSE /\ cmd' = [cmd EXCEPT ![c].pc = "stagedIO"]
         /\ lastEv' = "step"
         /\ UNCHANGED <<control, clientVars>>

\* serial number from the cache, else look the object up
ResolveSerial(c) ==
    IF thermostatSerial[cmd[c].tid] # ""
    THEN Route(c)
    ELSE /\ cmd' = [cmd EXCEPT ![c].pc = "serialIO"]
         /\ lastEv' = "step"
         /\ UNCHANGED <<control, clientVars>>

\* onStateChange without the online guard
AfterOnline_NoGuard(c, online) == ResolveSerial(c)

\* `if (!online) { reset; return }`, else resolve the serial number
AfterOnline(c, online) ==
    IF ~online
    THEN ApplyEnd(c, "blockedOffline") /\ UNCHANGED clientVars
    ELSE ResolveSerial(c)

\* the last segment of a state id below apply.<mode>: the button, or a
\* staged input
IdKinds == {"apply", "value"}

\* id.endsWith('.apply')
EndsWithApply(k) == k = "apply"

\* guards that do not look at the ack flag
Ignores_AckBlind(k, st) == ~EndsWithApply(k)

\* guards that do not look at the id
Ignores_IdBlind(k, st) == st.ack

\* `if (!state || state.ack) return; if (!id.endsWith('.apply')) return;`
\* (state.val is not looked at)
Ignores(k, st) == st.ack \/ ~EndsWithApply(k)

\* onStateChange(id, state): the event of a write of st to the state of kind
\* k below apply.<m> of thermostat t arrives; the handler returns at its
\* guards, or runs to `await this.getStateAsync('info.connection')`
StateChange(c, t, m, k, st) ==
    /\ Idle
    /\ phase = "running"
    /\ FreeSlot(c)
    /\ control' = IF EndsWithApply(k) THEN [control EXCEPT ![<<t, m>>] = st]
                  ELSE control
    /\ IF Ignores(k, st)
       THEN /\ lastEv' = "eventIgnored"
            /\ UNCHANGED cmd
       ELSE /\ cmd' = [cmd EXCEPT ![c] = [pc |-> "connIO", tid |-> t,
                                          mode |-> m, calls |-> 0]]
            /\ lastEv' = "step"
    /\ UNCHANGED <<clientVars, phase, connVars, cycleVars, timerVars,
                   unloading, upc, regVars, storeVars>>
    /\ UNCHANGED codecVars

\* a state-change event of an apply button arrives (written with ack=false)
Press(c, t, m, v) == StateChange(c, t, m, "apply", [val |-> v, ack |-> FALSE])

\* getStateAsync('info.connection') returned: block, or check the thermostat
ApplyConnIO(c) ==
    /\ Idle
    /\ cmd[c].pc = "connIO"
    /\ IF infoConnection # "true"
       THEN /\ ApplyEnd(c, "blockedConn")
            /\ UNCHANGED clientVars
       ELSE /\ IF IsBool(lastOnline[cmd[c].tid])
               THEN AfterOnline(c, lastOnline[cmd[c].tid] = "true")
               ELSE /\ cmd' = [cmd EXCEPT ![c].pc = "onlineIO"]
                    /\ lastEv' = "step"
                    /\ UNCHANGED <<control, clientVars>>
    /\ UNCHANGED <<phase, infoConnection, pollFailCount, cycleVars,
                   timerVars, unloading, upc, regVars, storeVars>>
    /\ UNCHANGED codecVars

\* _isThermostatOnline() fallback: the stored online state, else false
ApplyOnlineIO(c) ==
    /\ Idle
    /\ cmd[c].pc = "onlineIO"
    /\ AfterOnline(c, IF IsBool(onlineState[cmd[c].tid])
                      THEN onlineState[cmd[c].tid] = "true" ELSE FALSE)
    /\ UNCHANGED <<phase, connVars, cycleVars, timerVars, unloading,
                   upc, regVars, storeVars>>
    /\ UNCHANGED codecVars

\* _getSerialFromObject() returned: cache it and route, or give up
ApplySerialIO(c) ==
    /\ Idle
    /\ cmd[c].pc = "serialIO"
    /\ IF objSerial[cmd[c].tid] \notin {"none", ""}
       THEN /\ thermostatSerial' = [thermostatSerial EXCEPT ![cmd[c].tid] =
                                        objSerial[cmd[c].tid]]
            /\ Route(c)
       ELSE /\ ApplyEnd(c, "blockedSerial")
            /\ UNCHANGED <<thermostatSerial, clientVars>>
    /\ UNCHANGED <<phase, connVars, cycleVars, timerVars, unloading,
                   upc, lastOnline, warnedOffline, storeVars>>
    /\ UNCHANGED codecVars

\* the staged inputs of the handler were read: send, or abort (empty name)
ApplyStagedIO(c, emptyName) ==
    /\ Idle
    /\ cmd[c].pc = "stagedIO"
    /\ IF cmd[c].mode = "name" /\ emptyName
       THEN ApplyEnd(c, "aborted") /\ UNCHANGED clientVars
       ELSE /\ CallStart(c)
            /\ cmd' = [cmd EXCEPT ![c].pc = "update", ![c].calls = @ + 1]
            /\ lastEv' = "step"
            /\ UNCHANGED control
    /\ UNCHANGED <<phase, connVars, cycleVars, timerVars, unloading,
                   upc, regVars, storeVars>>
    /\ UNCHANGED codecVars

\* the catch block that clears the flag only at the poll failure threshold
ApplyCallDone_AtThreshold(c) ==
    /\ ~Terminated
    /\ cmd[c].pc = "update"
    /\ call[c].pc \in {"ok", "err"}
    /\ IF call[c].pc = "err" /\ IsCommError(call[c].err)
          /\ pollFailCount >= POLL_FAIL_THRESHOLD
       THEN infoConnection' = "false"
       ELSE UNCHANGED infoConnection
    /\ ApplyEnd(c, IF call[c].pc = "ok" THEN "applied"
                    ELSE IF IsCommError(call[c].err) THEN "applyCommFailed"
                    ELSE "applyRejected")
    /\ call' = [call EXCEPT ![c] = NoCall]
    /\ UNCHANGED <<sessionId, loginVars, phase, pollFailCount,
                   cycleVars, timerVars, unloading, upc, regVars, storeVars>>
    /\ UNCHANGED codecVars

\* updateThermostat() settled: mirror or catch, then finally reset the button
ApplyCallDone(c) ==
    /\ ~Terminated
    /\ cmd[c].pc = "update"
    /\ call[c].pc \in {"ok", "err"}
    /\ IF call[c].pc = "err" /\ IsCommError(call[c].err)
       THEN infoConnection' = "false"
       ELSE UNCHANGED infoConnection
    /\ ApplyEnd(c, IF call[c].pc = "ok" THEN "applied"
                    ELSE IF IsCommError(call[c].err) THEN "applyCommFailed"
                    ELSE "applyRejected")
    /\ call' = [call EXCEPT ![c] = NoCall]
    /\ UNCHANGED <<sessionId, loginVars, phase, pollFailCount,
                   cycleVars, timerVars, unloading, upc, regVars, storeVars>>
    /\ UNCHANGED codecVars

----------------------------------------------------------------------------
(* End times of comfort and boost (lib/time, apply router) *)

\* the adapter's state outside the end-time computation
adapterVars == <<clientVars, phase, connVars, cycleVars, timerVars, unloading,
                 upc, regVars, storeVars, applyVars, lastEv>>

\* milliseconds of a day
DayMs == 24 * 60 * 60 * 1000

\* A timestamp "YYYY-MM-DDTHH:mm:ss" without zone: the date part is kept as
\* the number of the day (days since 1970-01-01), the time part field by field.
NoEnd == [day |-> 0, hh |-> 0, mm |-> 0, ss |-> 0]

\* getUTCFullYear()..getUTCSeconds() of new Date(ms), milliseconds dropped
FormatNoZ(ms) ==
    LET sec == ms \div 1000
        tod == sec % 86400
    IN [day |-> sec \div 86400,
        hh |-> tod \div 3600,
        mm |-> (tod % 3600) \div 60,
        ss |-> tod % 60]

\* new Date(Date.now() + minutes * 60 * 1000).toISOString() without ms and Z
nowPlusMinutesUtcNoZ(now, minutes) == FormatNoZ(now + minutes * 60 * 1000)

\* the wall clock of now + minutes at the offset timeZoneSec
nowPlusMinutesThermostatLocalNoZ(now, minutes, timeZoneSec) ==
    FormatNoZ(now + minutes * 60 * 1000 + timeZoneSec * 1000)

SEND_EXTRA_ENDTIME_SEC == 3600
EXTRA_ENDTIME_SEC_COMFORT == 0

Min(a, b) == IF a < b THEN a ELSE b
Max(a, b) == IF a > b THEN a ELSE b

\* dur = clamp(Math.trunc(dur), 1, 24 * 60)
ClampDur(n) == Min(24 * 60, Max(1, n))

\* comfort/boost handler of lib/apply-handlers.js: UTC end time
ApplyComfortUtc ==
    /\ sentBy = "none"
    /\ sentEnd' = nowPlusMinutesUtcNoZ(nowMs, ClampDur(rawDur))
    /\ sentBy' = "utc"
    /\ UNCHANGED <<nowMs, rawDur, tzSec, routerVars, decodeVars, cacheVars, renameVars, prefillVars,
                   adapterVars>>

\* handler of the router version with SEND_EXTRA_ENDTIME_SEC
ApplyComfortExtra ==
    /\ sentBy = "none"
    /\ sentEnd' = nowPlusMinutesThermostatLocalNoZ(nowMs, ClampDur(rawDur),
                                                   tzSec + SEND_EXTRA_ENDTIME_SEC)
    /\ sentBy' = "localExtra"
    /\ UNCHANGED <<nowMs, rawDur, tzSec, routerVars, decodeVars, cacheVars, renameVars, prefillVars,
                   adapterVars>>

\* handler of the router version with EXTRA_ENDTIME_SEC_COMFORT
ApplyComfortLocal ==
    /\ sentBy = "none"
    /\ sentEnd' = nowPlusMinutesThermostatLocalNoZ(nowMs, ClampDur(rawDur),
                                                   tzSec + EXTRA_ENDTIME_SEC_COMFORT)
    /\ sentBy' = "local"
    /\ UNCHANGED <<nowMs, rawDur, tzSec, routerVars, decodeVars, cacheVars, renameVars, prefillVars,
                   adapterVars>>

----------------------------------------------------------------------------
(* Apply router (lib/apply-handlers.js): payloads and mirrored states *)

\* A text is a sequence of one-character strings.  A number staged by the
\* user is kept in thousandths (of a degree, of a minute), so that rounding
\* and truncation have something to do; its kind tells a state that does not
\* exist ("missing") from the values null, '' ("empty"), a text that is no
\* number ("text") and a number ("num").  A staged text is [has |-> FALSE] when the state
\* does not exist or holds null.
Thousandths(n) == n * 1000

Blank == " "
Digits == {"0", "1", "2", "3", "4", "5", "6", "7", "8", "9"}
DigitText == <<"0", "1", "2", "3", "4", "5", "6", "7", "8", "9">>

\* String.prototype.trim()
RECURSIVE TrimStart(_)
TrimStart(s) == IF s # <<>> /\ Head(s) = Blank THEN TrimStart(Tail(s)) ELSE s

RECURSIVE TrimEnd(_)
TrimEnd(s) ==
    IF s # <<>> /\ s[Len(s)] = Blank THEN TrimEnd(SubSeq(s, 1, Len(s) - 1))
    ELSE s

Trim(s) == TrimEnd(TrimStart(s))

\* no clamping at all
clamp_None(n, lo, hi) == n

\* clamp = (n, min, max) => Math.min(max, Math.max(min, n))
clamp(n, lo, hi) == Min(hi, Max(lo, n))

\* Number(st?.val): NaN for undefined and for a text that is no number, 0 for
\* null and for ''
ToNumber(v) ==
    CASE v.kind = "num" -> [fin |-> TRUE, milli |-> v.milli]
      [] v.kind \in {"null", "empty"} -> [fin |-> TRUE, milli |-> 0]
      [] OTHER -> [fin |-> FALSE, milli |-> 0]

\* readNum(sid, def): Number(st?.val) if finite, else the default
readNum(st, def) ==
    IF ToNumber(st).fin THEN ToNumber(st).milli ELSE Thousandths(def)

\* readStr(sid, def): String(val) unless val is null or undefined
readStr(st, def) == IF st.has THEN st.val ELSE def

\* readBool(sid, def): a boolean, 1/'1', 0/'0', else the default
readBool(v, def) ==
    CASE v \in {"true", "1"} -> TRUE
      [] v \in {"false", "0"} -> FALSE
      [] OTHER -> def

\* Math.trunc() of a number given in thousandths
MathTrunc(m) == IF m >= 0 THEN m \div 1000 ELSE 0 - ((0 - m) \div 1000)

\* cToNum(tempC) = Math.round(n * 100) of a finite number given in
\* thousandths: hundredths, ties rounded up
cToNum(m) == (m + 5) \div 10

\* isDay = s => /^\d{4}-\d{2}-\d{2}$/.test(s)
isDay(s) ==
    /\ Len(s) = 10
    /\ \A i \in 1..10 : IF i \in {5, 8} THEN s[i] = "-" ELSE s[i] \in Digits

\* `Thermostat ${thermostatId}`
DefaultName(t) ==
    <<"T", "h", "e", "r", "m", "o", "s", "t", "a", "t", " ">> \o <<DigitText[t + 1]>>

\* the cache entry alone, without the fallback name
baseName_CacheOnly(cache, t) == cache

\* baseName = this.thermostatNameCache[thermostatId] || `Thermostat ${id}`
baseName(cache, t) == IF cache # <<>> THEN cache ELSE DefaultName(t)

\* the adapter object that owns the router has no maps
\* thermostatVacationEnabled/Begin/End/Temp: assigning into them throws
HasVacationCaches == FALSE

\* handlers.schedule
SchedulePayload(base) == [ThermostatName |-> base, RegulationMode |-> 1]

\* handlers.comfort: the sanitized setpoint and duration
ComfortTempC(st) == clamp(readNum(st.comfortSetpoint, 22), Thousandths(12), Thousandths(35))
ComfortDur(st) == clamp(MathTrunc(readNum(st.comfortDuration, 180)), 1, 24 * 60)

ComfortPayload(base, st, now) ==
    [ThermostatName |-> base,
     RegulationMode |-> 2,
     ComfortSetpoint |-> cToNum(ComfortTempC(st)),
     ComfortEndTime |-> nowPlusMinutesUtcNoZ(now, ComfortDur(st))]

\* handlers.manual without the clamp of the setpoint
ManualPayload_Unclamped(base, st) ==
    [ThermostatName |-> base,
     RegulationMode |-> 3,
     ManualModeSetpoint |-> cToNum(readNum(st.manualSetpoint, 21))]

\* handlers.manual
ManualPayload(base, st) ==
    [ThermostatName |-> base,
     RegulationMode |-> 3,
     ManualModeSetpoint |->
         cToNum(clamp(readNum(st.manualSetpoint, 21), Thousandths(12), Thousandths(35)))]

\* handlers.boost
BoostDur(st) == clamp(MathTrunc(readNum(st.boostDuration, 60)), 1, 24 * 60)

BoostPayload(base, st, now) ==
    [ThermostatName |-> base,
     RegulationMode |-> 8,
     BoostEndTime |-> nowPlusMinutesUtcNoZ(now, BoostDur(st))]

\* handlers.eco
EcoPayload(base) == [ThermostatName |-> base, RegulationMode |-> 9]

\* the new name as staged, not trimmed
NewName_Untrimmed(st, base) == readStr(st.nameValue, base)

\* handlers.name: the trimmed new name, and the payload
NewName(st, base) == Trim(readStr(st.nameValue, base))

NamePayload(st, base) == [ThermostatName |-> NewName(st, base)]

\* handlers.vacation: the inputs as read and sanitized
VacationEnabled(st) == readBool(st.vacEnabled, FALSE)
VacationBegin(st) == Trim(readStr(st.vacBegin, <<>>))
VacationEnd(st) == Trim(readStr(st.vacEnd, <<>>))

\* the staged temperature without the clamp
VacationTempC_Unclamped(st) == readNum(st.vacTemp, 12)

\* tempC = clamp(tempC, 5, 35)
VacationTempC(st) == clamp(readNum(st.vacTemp, 12), Thousandths(5), Thousandths(35))

\* one log.warn for each day that is given and is not YYYY-MM-DD
VacationWarns(st) ==
    (IF VacationBegin(st) # <<>> /\ ~isDay(VacationBegin(st)) THEN 1 ELSE 0)
    + (IF VacationEnd(st) # <<>> /\ ~isDay(VacationEnd(st)) THEN 1 ELSE 0)

\* the payload has the day fields only when the days are not empty
VacationFields(st) ==
    {"ThermostatName", "VacationEnabled", "VacationTemperature"}
        \cup (IF VacationBegin(st) # <<>> THEN {"VacationBeginDay"} ELSE {})
        \cup (IF VacationEnd(st) # <<>> THEN {"VacationEndDay"} ELSE {})

VacationPayload(base, st) ==
    [f \in VacationFields(st) |->
        CASE f = "ThermostatName" -> base
          [] f = "VacationEnabled" -> VacationEnabled(st)
          [] f = "VacationBeginDay" -> VacationBegin(st)
          [] f = "VacationEndDay" -> VacationEnd(st)
          [] OTHER -> cToNum(VacationTempC(st))]

\* the fields the handler of a known mode passes to updateThermostat
handlers(mode, base, st, now) ==
    CASE mode = "schedule" -> SchedulePayload(base)
      [] mode = "comfort" -> ComfortPayload(base, st, now)
      [] mode = "manual" -> ManualPayload(base, st)
      [] mode = "boost" -> BoostPayload(base, st, now)
      [] mode = "eco" -> EcoPayload(base)
      [] mode = "name" -> NamePayload(st, base)
      [] OTHER -> VacationPayload(base, st)

\* the call before the handler's await: the payload it was given
LastSent == sent[Len(sent)]

\* the states a handler writes after its update succeeded
Mirror(mode, st, d) ==
    CASE mode = "comfort" -> [d EXCEPT !.endComfort = LastSent.ComfortEndTime]
      [] mode = "boost" -> [d EXCEPT !.endBoost = LastSent.BoostEndTime]
      [] mode = "name" -> [d EXCEPT !.thermostatName = LastSent.ThermostatName]
      [] mode = "vacation" ->
            [d EXCEPT !.vacEnabled = VacationEnabled(st),
                      !.vacBegin = IF VacationBegin(st) # <<>>
                                   THEN VacationBegin(st) ELSE @,
                      !.vacEnd = IF VacationEnd(st) # <<>>
                                 THEN VacationEnd(st) ELSE @,
                      !.vacTemp = VacationTempC(st)]
      [] OTHER -> d

\* staged values
NoNum == [kind |-> "missing", milli |-> 0]
NullNum == [kind |-> "null", milli |-> 0]
EmptyNum == [kind |-> "empty", milli |-> 0]
TextNum == [kind |-> "text", milli |-> 0]
NoText == [has |-> FALSE, val |-> <<>>]
Num(m) == [kind |-> "num", milli |-> m]
Text(s) == [has |-> TRUE, val |-> s]

\* applyRouter(ctx), called by onStateChange in its try block: the handler is
\* looked up and runs to its updateThermostat; when it returns at once,
\* onStateChange's finally resets the control
RouterCall ==
    /\ rpc = "start"
    /\ LET base == baseName(nameCache, ctxTid) IN
       IF ctxMode \notin KnownModes
       THEN /\ rpc' = "done"
            /\ rres' = "ignored"
            /\ ctxControl' = Released
            /\ UNCHANGED <<sent, warns>>
       ELSE IF ctxMode = "name" /\ NewName(staged, base) = <<>>
       THEN /\ rpc' = "done"
            /\ rres' = "aborted"
            /\ warns' = warns + 1
            /\ ctxControl' = Released
            /\ UNCHANGED sent
       ELSE /\ sent' = Append(sent, handlers(ctxMode, base, staged, nowMs))
            /\ warns' = warns + (IF ctxMode = "vacation"
                                 THEN VacationWarns(staged) ELSE 0)
            /\ rpc' = "update"
            /\ rres' = "none"
            /\ UNCHANGED ctxControl
    /\ UNCHANGED <<ctxMode, ctxTid, nameCache, staged, display>>
    /\ UNCHANGED <<nowMs, rawDur, tzSec, sentEnd, sentBy, decodeVars, cacheVars, renameVars, prefillVars,
                   adapterVars>>

\* updateThermostat settled: the rest of the handler, or the rejection; then
\* onStateChange's catch (log) and finally (reset of the control)
RouterSettle(ok) ==
    /\ rpc = "update"
    /\ rpc' = "done"
    /\ ctxControl' = Released
    /\ IF ok
       THEN /\ display' = Mirror(ctxMode, staged, display)
            /\ IF ctxMode = "name"
               THEN /\ nameCache' = LastSent.ThermostatName
                    /\ staged' = [staged EXCEPT !.nameValue =
                                     [has |-> TRUE, val |-> LastSent.ThermostatName]]
               ELSE UNCHANGED <<nameCache, staged>>
            /\ rres' = IF ctxMode = "vacation" /\ ~HasVacationCaches
                       THEN "typeError" ELSE "ok"
       ELSE /\ rres' = "updateFailed"
            /\ UNCHANGED <<display, nameCache, staged>>
    /\ cloudName' = IF ok THEN LastSent.ThermostatName ELSE cloudName
    /\ renamedTo' = IF ok /\ ctxMode = "name"
                    THEN Text(LastSent.ThermostatName) ELSE renamedTo
    /\ UNCHANGED <<ctxMode, ctxTid, sent, warns, readName, prefillVars>>
    /\ UNCHANGED <<nowMs, rawDur, tzSec, sentEnd, sentBy, decodeVars, cacheVars,
                   adapterVars>>

\* the staging fields that prefillApplyNonDestructive visits, in its order:
\* name.value, vacation.enabled, vacation.begin, vacation.end,
\* vacation.temperature
PrefillFields == 1..5
TemperatureField == 5
TextFields == {1, 3, 4}

\* what the state store holds for a field: no state, val null, val '', val
\* NaN, a value staged by the user, a value written by the prefill
StoreKinds == {"missing", "null", "empty", "nan", "user", "cloud"}

\* the record of the poll read: its name and days are non-empty texts or not,
\* its vacation temperature is a number or not
PrefillRecords == [texts : BOOLEAN, temp : BOOLEAN]

NoPrefill == [idx |-> 0, got |-> FALSE, seen |-> "missing",
              rec |-> [texts |-> FALSE, temp |-> FALSE]]

\* no prefill is running and no staging field has a state
PrefillIdle ==
    /\ applyStore = [f \in PrefillFields |-> "missing"]
    /\ prefill = NoPrefill

\* the value argument of setIfEmpty: String(x || '') is '' for a missing text
PrefillValue(f, rec) ==
    IF f \in TextFields /\ ~rec.texts THEN "empty" ELSE "cloud"

\* setIfEmpty: `!st || st.val === null || st.val === undefined ||
\* st.val === ''`, or a NaN number
SetIfEmptyWrites(kind) == kind \in {"missing", "null", "empty", "nan"}

\* the field after f that prefillApplyNonDestructive visits; 0 at the end
\* (vacation.temperature is visited only when numToC gave a number)
PrefillAfter(f, rec) ==
    IF f + 1 \in PrefillFields /\ (f + 1 # TemperatureField \/ rec.temp)
    THEN f + 1 ELSE 0

\* upsertThermostat calls prefillApplyNonDestructive(adapter, devId, t)
PrefillStart(rec) ==
    /\ prefill.idx = 0
    /\ prefill' = [idx |-> 1, got |-> FALSE, seen |-> "missing", rec |-> rec]
    /\ UNCHANGED applyStore
    /\ UNCHANGED <<nowMs, rawDur, tzSec, sentEnd, sentBy, routerVars, decodeVars,
                   cacheVars, renameVars, adapterVars>>

\* the state store answers getStateAsync(id) with what it holds; when the
\* call fails the catch block ignores it and the next field is visited
PrefillRead(ok) ==
    /\ prefill.idx \in PrefillFields
    /\ ~prefill.got
    /\ prefill' = IF ok
                  THEN [prefill EXCEPT !.got = TRUE, !.seen = applyStore[prefill.idx]]
                  ELSE [prefill EXCEPT !.idx = PrefillAfter(@, prefill.rec)]
    /\ UNCHANGED applyStore
    /\ UNCHANGED <<nowMs, rawDur, tzSec, sentEnd, sentBy, routerVars, decodeVars,
                   cacheVars, renameVars, adapterVars>>

\* setIfEmpty after its await: the test on the value read and, if it passes,
\* safeSetState(id, {val: value, ack: true}), which the store carries out
PrefillWrite ==
    /\ prefill.idx \in PrefillFields
    /\ prefill.got
    /\ applyStore' = IF SetIfEmptyWrites(prefill.seen)
                     THEN [applyStore EXCEPT ![prefill.idx] =
                              PrefillValue(prefill.idx, prefill.rec)]
                     ELSE applyStore
    /\ prefill' = [prefill EXCEPT !.idx = PrefillAfter(@, prefill.rec),
                                  !.got = FALSE, !.seen = "missing"]
    /\ UNCHANGED <<nowMs, rawDur, tzSec, sentEnd, sentBy, routerVars, decodeVars,
                   cacheVars, renameVars, adapterVars>>

\* the user stages a value in a field, or clears the field (the write goes
\* from the user interface to the state store)
UserStages(f, kind) ==
    /\ applyStore[f] # kind
    /\ applyStore' = [applyStore EXCEPT ![f] = kind]
    /\ UNCHANGED prefill
    /\ UNCHANGED <<nowMs, rawDur, tzSec, sentEnd, sentBy, routerVars, decodeVars,
                   cacheVars, renameVars, adapterVars>>

\* what the user leaves in a field
UserKinds == {"user", "empty"}

\* the prefills of the poll cycles next to the writes of the user
NextPrefill ==
    \/ \E rec \in PrefillRecords : PrefillStart(rec)
    \/ \E ok \in BOOLEAN : PrefillRead(ok)
    \/ PrefillWrite
    \/ \E f \in PrefillFields, kind \in UserKinds : UserStages(f, kind)

\* the cloud's name is not followed, no read is under way
RenameIdle == cloudName = <<>> /\ readName = NoText /\ renamedTo = NoText

\* the cloud answers the read of a poll cycle (getGroupContents) with the
\* name it holds at that moment
PollReadsName ==
    /\ ~readName.has
    /\ readName' = Text(cloudName)
    /\ UNCHANGED <<cloudName, renamedTo, routerVars, prefillVars>>
    /\ UNCHANGED <<nowMs, rawDur, tzSec, sentEnd, sentBy, decodeVars, cacheVars,
                   adapterVars>>

\* String(t?.ThermostatName || `Thermostat ${thermostatId}`)
upsertName(name, t) == IF name # <<>> THEN name ELSE DefaultName(t)

\* upsertThermostat for the record of the read: the name cache is set from it
PollUpsertsName ==
    /\ readName.has
    /\ nameCache' = upsertName(readName.val, ctxTid)
    /\ readName' = NoText
    /\ UNCHANGED <<prefillVars, cloudName, renamedTo, ctxMode, ctxTid, staged, sent, rpc, rres, display,
                   warns, ctxControl>>
    /\ UNCHANGED <<nowMs, rawDur, tzSec, sentEnd, sentBy, decodeVars, cacheVars,
                   adapterVars>>

\* the next apply button is pressed after the command has ended:
\* onStateChange builds the context and calls the router again
RouterNext(mode) ==
    /\ rpc = "done"
    /\ Len(sent) + warns < MaxCmds
    /\ rpc' = "start"
    /\ rres' = "none"
    /\ ctxMode' = mode
    /\ ctxControl' = [val |-> TRUE, ack |-> FALSE]
    /\ UNCHANGED <<ctxTid, nameCache, staged, sent, display, warns, renameVars, prefillVars>>
    /\ UNCHANGED <<nowMs, rawDur, tzSec, sentEnd, sentBy, decodeVars, cacheVars,
                   adapterVars>>

\* no state is staged
NoStaged ==
    [comfortSetpoint |-> NoNum, comfortDuration |-> NoNum,
     manualSetpoint |-> NoNum, boostDuration |-> NoNum, nameValue |-> NoText,
     vacEnabled |-> "none", vacBegin |-> NoText, vacEnd |-> NoText,
     vacTemp |-> NoNum]

\* the display states before the command
OldDisplay ==
    [endComfort |-> NoEnd, endBoost |-> NoEnd, vacEnabled |-> FALSE,
     vacBegin |-> <<"o", "l", "d">>, vacEnd |-> <<"o", "l", "d">>,
     vacTemp |-> 0, thermostatName |-> <<"o", "l", "d">>]

\* no router call is being looked at
RouterIdle ==
    /\ ctxMode = "none" /\ ctxTid = 1 /\ nameCache = <<>>
    /\ staged = NoStaged /\ sent = <<>> /\ rpc = "idle" /\ rres = "none"
    /\ display = OldDisplay /\ warns = 0
    /\ ctxControl = Released

----------------------------------------------------------------------------
(* The caches of upsertThermostat: serial number and time zone *)

\* reads of one thermostat that the cache is followed over
MaxReads == 3

\* no number is cached (the entry is undefined)
NoTz == [fin |-> FALSE, milli |-> 0]

\* _getTzSecFromThermostat(thermostatId, t): the cached value if it is
\* finite, else Number(t?.TimeZone) if that is finite, else 0
getTzSecFromThermostat(cached, tz) ==
    IF cached.fin THEN cached
    ELSE IF ToNumber(tz).fin THEN ToNumber(tz)
    ELSE [fin |-> TRUE, milli |-> 0]

\* upsertThermostat up to its first await, for the record `read` of
\* thermostat t: the serial number is cached if the record has one, the time
\* zone is looked up and cached
UpsertCaches(t, read) ==
    /\ Len(reads[t]) < MaxReads
    /\ UpsertBegin(t, read)
    /\ thermostatTimeZoneSec' =
           [thermostatTimeZoneSec EXCEPT ![t] = getTzSecFromThermostat(@, read.tz)]
    /\ reads' = [reads EXCEPT ![t] = Append(@, read)]
    /\ UNCHANGED <<clientVars, phase, connVars, cycleVars, timerVars, unloading,
                   upc, lastOnline, warnedOffline, storeVars, applyVars, lastEv>>
    /\ UNCHANGED <<nowMs, rawDur, tzSec, sentEnd, sentBy, routerVars, decodeVars,
                   renameVars, prefillVars>>

CacheIdle ==
    /\ thermostatTimeZoneSec = [t \in Tids |-> NoTz]
    /\ reads = [t \in Tids |-> <<>>]

----------------------------------------------------------------------------
(* End times read from the cloud (lib/time: toThermostatLocalNoZFromAny) *)

\* String(n) of a number n >= 0
RECURSIVE ToText(_)
ToText(n) ==
    IF n < 10 THEN <<DigitText[n + 1]>>
    ELSE ToText(n \div 10) \o <<DigitText[(n % 10) + 1]>>

\* s.padStart(w, '0')
RECURSIVE padStart(_, _)
padStart(s, w) == IF Len(s) >= w THEN s ELSE padStart(<<"0">> \o s, w)

\* pad2(n) = String(n).padStart(2, '0')
pad2(n) == padStart(ToText(n), 2)

DigitVal(c) == CHOOSE i \in 0..9 : DigitText[i + 1] = c

\* the number a text of digits denotes
RECURSIVE ToNum(_)
ToNum(s) ==
    IF s = <<>> THEN 0
    ELSE 10 * ToNum(SubSeq(s, 1, Len(s) - 1)) + DigitVal(s[Len(s)])

\* s.substring(i - 1, j), empty when out of range
Sub(s, i, j) == IF i > j \/ i < 1 \/ j > Len(s) THEN <<>> ELSE SubSeq(s, i, j)

\* s matches a pattern of the same length; "d" in the pattern is \d, every
\* other character is itself
Like(s, pat) ==
    /\ Len(s) = Len(pat)
    /\ \A i \in 1..Len(s) :
          IF pat[i] = "d" THEN s[i] \in Digits ELSE s[i] = pat[i]

\* Date: the day number of a civil date, and back (MakeDay, YearFromTime,
\* MonthFromTime, DateFromTime of the proleptic Gregorian calendar)
DaysFromCivil(y, mon, d) ==
    LET yy == IF mon <= 2 THEN y - 1 ELSE y
        era == yy \div 400
        yoe == yy - era * 400
        mp == IF mon > 2 THEN mon - 3 ELSE mon + 9
        doy == (153 * mp + 2) \div 5 + d - 1
        doe == yoe * 365 + yoe \div 4 - yoe \div 100 + doy
    IN era * 146097 + doe - 719468

CivilFromDays(days) ==
    LET z == days + 719468
        era == z \div 146097
        doe == z - era * 146097
        yoe == (doe - doe \div 1460 + doe \div 36524 - doe \div 146096) \div 365
        doy == doe - (365 * yoe + yoe \div 4 - yoe \div 100)
        mp == (5 * doy + 2) \div 153
        mon == IF mp < 10 THEN mp + 3 ELSE mp - 9
    IN [y |-> yoe + era * 400 + (IF mon <= 2 THEN 1 ELSE 0),
        mon |-> mon,
        d |-> doy - (153 * mp + 2) \div 5 + 1]

DaysInMonth(y, mon) ==
    (IF mon = 12 THEN DaysFromCivil(y + 1, 1, 1) ELSE DaysFromCivil(y, mon + 1, 1))
        - DaysFromCivil(y, mon, 1)

\* /[zZ]$/.test(s)
EndsWithZ(s) == s # <<>> /\ s[Len(s)] \in {"z", "Z"}

\* the length of the match of /[+-]\d{2}:?\d{2}$/ in s, 0 without a match
OffsetLen(s) ==
    IF \E sg \in {"+", "-"} :
           Like(Sub(s, Len(s) - 5, Len(s)), <<sg, "d", "d", ":", "d", "d">>)
    THEN 6
    ELSE IF \E sg \in {"+", "-"} :
           Like(Sub(s, Len(s) - 4, Len(s)), <<sg, "d", "d", "d", "d">>)
    THEN 5
    ELSE 0

\* hasZone = /[zZ]$/.test(s) || /[+-]\d{2}:?\d{2}$/.test(s)
hasZone(s) == EndsWithZ(s) \/ OffsetLen(s) > 0

\* A time value is kept as whole seconds since the epoch and the milliseconds
\* within the second.
NaN == [ok |-> FALSE, sec |-> 0, ms |-> 0]

\* the digits at the head of s
RECURSIVE LeadingDigits(_)
LeadingDigits(s) ==
    IF s # <<>> /\ Head(s) \in Digits
    THEN <<Head(s)>> \o LeadingDigits(Tail(s)) ELSE <<>>

\* new Date(s).getTime() of a text with a zone, for the date-time string
\* format YYYY-MM-DDTHH:mm[:ss[.f...]](Z|+HH:mm|-HH:mm) with its range
\* checks; not-a-number for every other text (texts that an engine's
\* fallback heuristics might accept are not among the inputs)
DateParse(s) ==
    LET head == Sub(s, 1, 16)
        r1 == Sub(s, 17, Len(s))
        hasSec == Like(Sub(r1, 1, 3), <<":", "d", "d">>)
        r2 == IF hasSec THEN Sub(r1, 4, Len(r1)) ELSE r1
        fr == IF hasSec /\ r2 # <<>> /\ Head(r2) = "." THEN LeadingDigits(Tail(r2))
              ELSE <<>>
        r3 == IF fr # <<>> THEN Sub(r2, Len(fr) + 2, Len(r2)) ELSE r2
        y == ToNum(Sub(s, 1, 4))
        mon == ToNum(Sub(s, 6, 7))
        d == ToNum(Sub(s, 9, 10))
        hh == ToNum(Sub(s, 12, 13))
        mm == ToNum(Sub(s, 15, 16))
        ss == IF hasSec THEN ToNum(Sub(r1, 2, 3)) ELSE 0
        ms == ToNum(Sub(fr \o <<"0", "0", "0">>, 1, 3))
        isZ == r3 = <<"Z">>
        isOff == Len(r3) = 6 /\ OffsetLen(r3) = 6
        oh == IF isOff THEN ToNum(Sub(r3, 2, 3)) ELSE 0
        om == IF isOff THEN ToNum(Sub(r3, 5, 6)) ELSE 0
        off == (IF isOff /\ r3[1] = "-" THEN 0 - 1 ELSE 1) * (oh * 60 + om)
    IN IF /\ Like(head, <<"d", "d", "d", "d", "-", "d", "d", "-", "d", "d", "T",
                          "d", "d", ":", "d", "d">>)
          /\ isZ \/ isOff
          /\ mon \in 1..12
          /\ d >= 1 /\ d <= DaysInMonth(y, mon)
          /\ hh <= 23 \/ (hh = 24 /\ mm = 0 /\ ss = 0 /\ ms = 0)
          /\ mm <= 59 /\ ss <= 59
          /\ oh <= 23 /\ om <= 59
       THEN [ok |-> TRUE,
             sec |-> DaysFromCivil(y, mon, d) * 86400 + hh * 3600 + mm * 60 + ss
                        - off * 60,
             ms |-> ms]
       ELSE NaN

\* formatThermostatLocalNoZFromUtcMs(utcMs, timeZoneSec): the UTC getters of
\* new Date(utcMs + tz * 1000)
formatThermostatLocalNoZFromUtcMs(utc, timeZoneSec) ==
    LET sec == utc.sec + timeZoneSec
        tod == sec % 86400
        c == CivilFromDays(sec \div 86400)
    IN ToText(c.y) \o <<"-">> \o pad2(c.mon) \o <<"-">> \o pad2(c.d) \o <<"T">>
         \o pad2(tod \div 3600) \o <<":">> \o pad2((tod % 3600) \div 60)
         \o <<":">> \o pad2(tod % 60)

\* the lookahead (?=($|[zZ]|[+-]\d{2}:?\d{2}$)) at position j of s
ZoneAhead(s, j) ==
    \/ j = Len(s) + 1
    \/ j <= Len(s) /\ s[j] \in {"z", "Z"}
    \/ j <= Len(s) /\ OffsetLen(Sub(s, j, Len(s))) = Len(s) - j + 1

\* the number of digits /\.\d{1,3}(?=...)/ matches after a dot at i, 0 if none
FracLen(s, i) ==
    IF s[i] # "." THEN 0
    ELSE LET ks == {k \in 1..3 : /\ i + k <= Len(s)
                                 /\ \A j \in (i + 1)..(i + k) : s[j] \in Digits
                                 /\ ZoneAhead(s, i + k + 1)}
         IN IF ks = {} THEN 0 ELSE CHOOSE k \in ks : \A l \in ks : l <= k

\* stripMsKeepLocalNoZ(s): the first fraction of one to three digits before
\* the end or a zone, a trailing Z and a trailing offset are removed
stripMsKeepLocalNoZ(s) ==
    LET x == Trim(s)
        hits == {i \in 1..Len(x) : FracLen(x, i) > 0}
        at == CHOOSE i \in hits : \A j \in hits : i <= j
        msStripped == IF hits = {} THEN x
                      ELSE Sub(x, 1, at - 1) \o Sub(x, at + FracLen(x, at) + 1, Len(x))
        noZ == IF EndsWithZ(msStripped) THEN Sub(msStripped, 1, Len(msStripped) - 1)
               ELSE msStripped
    IN Sub(noZ, 1, Len(noZ) - OffsetLen(noZ))

\* /^(\d{4})-(\d{2})-(\d{2})[T ](\d{2}):(\d{2})(?::(\d{2}))?$/
NaiveMatch(s) ==
    \E sep \in {"T", " "} :
        \/ Like(s, <<"d", "d", "d", "d", "-", "d", "d", "-", "d", "d", sep,
                     "d", "d", ":", "d", "d">>)
        \/ Like(s, <<"d", "d", "d", "d", "-", "d", "d", "-", "d", "d", sep,
                     "d", "d", ":", "d", "d", ":", "d", "d">>)

\* the naive branch: `${year}-${mon}-${day}T${hh}:${mm}:${ss}` with ss = '00'
\* when the seconds are missing; a text the pattern does not match is returned
\* as it is
NaiveLocal(noZone) ==
    IF ~NaiveMatch(noZone) THEN noZone
    ELSE Sub(noZone, 1, 10) \o <<"T">> \o Sub(noZone, 12, 16) \o <<":">>
           \o (IF Len(noZone) = 19 THEN Sub(noZone, 18, 19) ELSE <<"0", "0">>)

\* toThermostatLocalNoZFromAny(value, timeZoneSec)
toThermostatLocalNoZFromAny(value, timeZoneSec) ==
    LET s == Trim(value)
    IN IF value = <<>> \/ s = <<>> THEN <<>>
       ELSE IF hasZone(s)
       THEN IF ~DateParse(s).ok THEN <<>>
            ELSE formatThermostatLocalNoZFromUtcMs(DateParse(s), timeZoneSec)
       ELSE NaiveLocal(stripMsKeepLocalNoZ(s))

EndFields == {"comfort", "boost"}

NotShown == [done |-> FALSE, comfort |-> <<>>, boost |-> <<>>]

\* writeThermostatStates: `toThermostatLocalNoZFromAny(t?.ComfortEndTime || '',
\* tzSec)` and the same for BoostEndTime, written to endTime.comfort/boost
ShowEndTimes ==
    /\ ~endShown.done
    /\ endShown' = [done |-> TRUE,
                    comfort |-> toThermostatLocalNoZFromAny(endRaw.comfort.text, tzSec),
                    boost |-> toThermostatLocalNoZFromAny(endRaw.boost.text, tzSec)]
    /\ UNCHANGED <<endRaw, nowMs, rawDur, tzSec, sentEnd, sentBy, routerVars,
                   cacheVars, renameVars, prefillVars,
                   adapterVars>>

\* no end time has been read
NoRaw == [text |-> <<>>, local |-> NaN]
DecodeIdle == endRaw = [comfort |-> NoRaw, boost |-> NoRaw] /\ endShown = NotShown

----------------------------------------------------------------------------
(* Specification *)

\* the persistent store at start: a fresh installation, or the objects and
\* states a previous run left behind
StoreInit == {<<"none", "none">>, <<"true", "S">>}

InitAdapter ==
    /\ sessionId = 0
    /\ loginInFlight = 0
    /\ loginGen = 0
    /\ loginPending = {}
    /\ call = [k \in Tasks |-> NoCall]
    /\ phase = "init"
    /\ infoConnection = "none"
    /\ pollFailCount = 0
    /\ pollInFlight = FALSE
    /\ pollPromise = "null"
    /\ pollTimer = "null"
    /\ pollDelaySec = 0
    /\ unloading = FALSE
    /\ upc = "idle"
    /\ ppc = "idle"
    /\ pIdx = 0
    /\ pollData = NoData
    /\ activeCycles = 0
    /\ sawOnline = FALSE
    /\ degraded = FALSE
    /\ thermostatSerial = [t \in Tids |-> ""]
    /\ lastOnline = [t \in Tids |-> "undef"]
    /\ warnedOffline = [t \in Tids |-> FALSE]
    /\ \E st \in StoreInit :
          /\ onlineState = [t \in Tids |-> st[1]]
          /\ objSerial = [t \in Tids |-> st[2]]
    /\ cmd = [c \in Cmds |-> IdleCmd]
    /\ control = [x \in Tids \X Modes |-> Released]
    /\ lastEv = "init"

\* no end time has been computed
Init ==
    /\ InitAdapter
    /\ nowMs = 0 /\ rawDur = 0 /\ tzSec = 0
    /\ sentEnd = NoEnd /\ sentBy = "none"
    /\ RouterIdle
    /\ DecodeIdle
    /\ CacheIdle
    /\ RenameIdle
    /\ PrefillIdle

\* responses of the cloud
LoginStep == \E g \in Gens, o \in LoginOutcomes : LoginResp(g, o)

HttpStep(outcomes) == \E k \in Tasks, o \in outcomes : HttpResp(k, o)

AllOutcomes == ErrKinds \cup {"ok"}
NoExpiry == AllOutcomes \ {"auth"}
SessionOutcomes == {"ok", "auth", "net"}

\* onReady and the poll cycle
PollStep ==
    \/ OnReady
    \/ \E o \in LoginOutcomes : OnReadyLoginDone(o)
    \/ OnReadySetupDone
    \/ OnReadyPollDone
    \/ PollReadOk
    \/ PollReadFailed
    \/ PollGroupIO
    \/ PollObjectsIO
    \/ PollPrefillIO
    \/ PollEnergyDone

\* apply buttons pressed by the user (one mode of each routing class)
PressModes == {"schedule", "name", "bogus"}

\* no onStateChange invocation is running
NoneRunning == \A c \in Cmds : cmd[c].pc = "idle"

\* a button is pressed; alone: the user waits for the previous command to end
PressStep(modes, alone) ==
    \E c \in Cmds, t \in Tids, m \in modes :
        /\ alone => NoneRunning
        /\ Press(c, t, m, TRUE)

\* onStateChange up to the router
GuardStep ==
    \/ \E c \in Cmds : ApplyConnIO(c)
    \/ \E c \in Cmds : ApplyOnlineIO(c)
    \/ \E c \in Cmds : ApplySerialIO(c)

\* the handler and the end of onStateChange
HandlerStep ==
    \/ \E c \in Cmds, e \in BOOLEAN : ApplyStagedIO(c, e)
    \/ \E c \in Cmds : ApplyCallDone(c)

UnloadStep ==
    \/ Unload
    \/ UnloadRaceDone

Next ==
    \/ LoginStep
    \/ HttpStep(AllOutcomes)
    \/ PollStep
    \/ Tick(MaxFailsCmd)
    \/ PressStep(PressModes, FALSE)
    \/ GuardStep
    \/ HandlerStep
    \/ UnloadStep

Spec == Init /\ [][Next]_vars

\* the adapter without user commands: start, poll cycles, shutdown
NextPoll ==
    \/ LoginStep
    \/ HttpStep(AllOutcomes)
    \/ PollStep
    \/ Tick(MaxFails)
    \/ UnloadStep

SpecPoll == Init /\ [][NextPoll]_vars

\* What the event loop guarantees: a continuation whose promise has settled
\* runs (microtasks are drained before the next macrotask), and the native
\* 5 s timer of onUnload fires.  Responses of the cloud and of the object
\* store are not guaranteed to arrive.
Continuations ==
    \/ PollReadOk
    \/ PollReadFailed
    \/ PollEnergyDone
    \/ OnReadyPollDone
    \/ UnloadRaceDone

SpecPollFair == SpecPoll /\ WF_vars(Continuations)

\* the adapter from its start, never unloaded
NextReconnect ==
    \/ LoginStep
    \/ HttpStep(AllOutcomes)
    \/ PollStep
    \/ Tick(MaxFails)

\* a request in flight is answered with success
Answers ==
    \/ \E g \in Gens : LoginResp(g, "ok")
    \/ \E k \in Tasks : HttpResp(k, "ok")

\* The interval timer keeps firing, the steps of onReady and of the poll
\* cycle run when their input is there (settled promises, answers of the
\* object store), and a request that can be answered with success is
\* answered at some time.
SpecReconnect ==
    /\ Init /\ [][NextReconnect]_vars
    /\ WF_vars(Tick(MaxFails))
    /\ WF_vars(PollStep)
    /\ WF_vars(Answers)

\* the session layer under concurrent callers: poll cycles next to apply
\* commands of the schedule mode; requests succeed, meet an expired session
\* or a network error; logins succeed or fail
NextClient ==
    \/ LoginStep
    \/ HttpStep(SessionOutcomes)
    \/ PollStep
    \/ Tick(1)
    \/ PressStep({"schedule"}, TRUE)
    \/ GuardStep
    \/ \E c \in Cmds : ApplyCallDone(c)

SpecClient == Init /\ [][NextClient]_vars

\* apply commands of every routing class, one at a time, next to the poll
\* cycle, while the session stays valid
NextApply ==
    \/ HttpStep(NoExpiry)
    \/ PollStep
    \/ Tick(MaxFailsCmd)
    \/ PressStep(PressModes, TRUE)
    \/ GuardStep
    \/ HandlerStep

SpecApply == Init /\ [][NextApply]_vars

\* the writes whose events reach onStateChange: any value, with or without
\* the ack flag
Writes == [val : BOOLEAN, ack : BOOLEAN]

\* a state below apply.<mode> is written by the user, by a script or by the
\* adapter itself (reset of the button, prefill and mirror writes), and the
\* event is delivered once the previous command has ended
EventStep ==
    \E c \in Cmds, t \in Tids, m \in {"schedule", "name"}, k \in IdKinds,
       st \in Writes :
        /\ NoneRunning
        /\ StateChange(c, t, m, k, st)

\* state-change events of every kind next to the poll cycle, while the
\* session stays valid
NextEvents ==
    \/ HttpStep(NoExpiry)
    \/ PollStep
    \/ EventStep
    \/ GuardStep
    \/ HandlerStep

SpecEvents == Init /\ [][NextEvents]_vars

\* apply commands as the events arrive: a button may be pressed while the
\* handling of an earlier command waits for I/O; the session stays valid
NextCommands ==
    \/ HttpStep(NoExpiry)
    \/ PollStep
    \/ PressStep(PressModes, FALSE)
    \/ GuardStep
    \/ HandlerStep

SpecCommands == Init /\ [][NextCommands]_vars

\* the session layer on every kind of response: poll cycles (ticks until
\* the first failed cycle) next to apply commands of the schedule mode, one
\* command at a time
NextRequest ==
    \/ LoginStep
    \/ HttpStep(AllOutcomes)
    \/ PollStep
    \/ Tick(1)
    \/ PressStep({"schedule"}, TRUE)
    \/ GuardStep
    \/ \E c \in Cmds : ApplyCallDone(c)

SpecRequest == Init /\ [][NextRequest]_vars

\* instants, staged durations and thermostat offsets the handlers are run on
NowSamples == {DayMs - 1, DayMs, DayMs + 1999, 2 * DayMs - 60 * 1000}
DurSamples == {60 * h : h \in 0..MaxDurHours} \cup {1, 24 * 60, 24 * 60 + 1}
TzSamples == {3600 * h : h \in (0 - MaxTzHours)..MaxTzHours}
                 \cup {0 - 43200, 19800, 50400}

InitCodec ==
    /\ InitAdapter
    /\ nowMs \in NowSamples
    /\ rawDur \in DurSamples
    /\ tzSec \in TzSamples
    /\ sentEnd = NoEnd /\ sentBy = "none"
    /\ RouterIdle
    /\ DecodeIdle
    /\ CacheIdle
    /\ RenameIdle
    /\ PrefillIdle

\* the end time computed by each version of the comfort/boost handler
NextCodec ==
    \/ ApplyComfortUtc
    \/ ApplyComfortExtra
    \/ ApplyComfortLocal

SpecCodec == InitCodec /\ [][NextCodec]_vars

\* the inputs the router is run on
TempSamples ==
    {NoNum, NullNum, EmptyNum, TextNum} \cup {Num(m) : m \in {0 - 5000, 0, 4999, 5000, 11999, 12000, 20123,
                                   20125, 21500, 35000, 35001, 40000}}
MinuteSamples ==
    {NoNum, NullNum, EmptyNum, TextNum} \cup {Num(m) : m \in {0 - 3500, 0, 500, 999, 1000, 1999, 90500,
                                   1440000, 1440999, 1441000, 2000000}}
CacheSamples == {<<>>, <<"B", "a", "d">>, <<" ">>}
NameSamples ==
    {NoText, Text(<<>>), Text(<<" ", " ">>), Text(<<" ", "H", " ">>), Text(<<"H">>)}
DaySamples ==
    {NoText, Text(<<>>),
     Text(<<"2", "0", "2", "4", "-", "0", "1", "-", "0", "1">>),
     Text(<<" ", "2", "0", "2", "4", "-", "0", "1", "-", "3", "1", " ">>),
     Text(<<"2", "0", "2", "4", "/", "0", "1", "/", "0", "1">>),
     Text(<<"2", "0", "2", "4", "-", "1", "-", "1">>)}
BoolSamples == {"true", "false", "1", "0", "yes", "none"}

\* the staged states that the handler of the mode reads
StagedFor(mode) ==
    CASE mode = "comfort" ->
            {[NoStaged EXCEPT !.comfortSetpoint = t, !.comfortDuration = d] :
                t \in TempSamples, d \in MinuteSamples}
      [] mode = "manual" ->
            {[NoStaged EXCEPT !.manualSetpoint = t] : t \in TempSamples}
      [] mode = "boost" ->
            {[NoStaged EXCEPT !.boostDuration = d] : d \in MinuteSamples}
      [] mode = "name" ->
            {[NoStaged EXCEPT !.nameValue = n] : n \in NameSamples}
      [] mode = "vacation" ->
            {[NoStaged EXCEPT !.vacEnabled = e, !.vacBegin = b, !.vacEnd = f,
                              !.vacTemp = t] :
                e \in BoolSamples, b \in DaySamples, f \in DaySamples,
                t \in TempSamples}
      [] OTHER -> {NoStaged}

InitRouter ==
    /\ InitAdapter
    /\ nowMs \in {DayMs - 1, 2 * DayMs - 60 * 1000}
    /\ rawDur = 0 /\ tzSec = 0 /\ sentEnd = NoEnd /\ sentBy = "none"
    /\ ctxMode \in Modes
    /\ ctxTid \in Tids
    /\ nameCache \in CacheSamples
    /\ staged \in StagedFor(ctxMode)
    /\ sent = <<>> /\ rpc = "start" /\ rres = "none"
    /\ display = OldDisplay /\ warns = 0
    /\ ctxControl = [val |-> TRUE, ack |-> FALSE]
    /\ DecodeIdle
    /\ CacheIdle
    /\ RenameIdle
    /\ PrefillIdle

\* one call of the apply router, with an update that succeeds or fails
NextRouter ==
    \/ RouterCall
    \/ \E ok \in BOOLEAN : RouterSettle(ok)

SpecRouter == InitRouter /\ [][NextRouter]_vars

\* the end times the decoder is run on: the wall clock of a time value as
\* a text, with "T" or a blank, with or without seconds, and with a fraction
\* of no, three or seven digits
FracText(ms, n) ==
    IF n = 0 THEN <<>>
    ELSE <<".">> \o padStart(ToText(ms), 3)
           \o (IF n = 7 THEN <<"4", "5", "6", "7">> ELSE <<>>)

WallText(t, sep, f) ==
    LET tod == t.sec % 86400
        c == CivilFromDays(t.sec \div 86400)
    IN ToText(c.y) \o <<"-">> \o pad2(c.mon) \o <<"-">> \o pad2(c.d) \o <<sep>>
         \o pad2(tod \div 3600) \o <<":">> \o pad2((tod % 3600) \div 60)
         \o (IF f.secs THEN <<":">> \o pad2(tod % 60) \o FracText(t.ms, f.frac)
             ELSE <<>>)

ZoneText(z) ==
    IF z = 0 THEN <<"Z">>
    ELSE LET a == IF z < 0 THEN 0 - z ELSE z
         IN <<IF z < 0 THEN "-" ELSE "+">> \o pad2(a \div 3600) \o <<":">>
              \o pad2((a % 3600) \div 60)

FracSamples == {3, 7}

\* the ways a time value can be written with a fraction of n digits
Forms(t, n) ==
    {f \in [secs : BOOLEAN, frac : {n}] : ~f.secs => (t.sec % 60 = 0 /\ n = 0)}

\* the lengths of the fraction a time value is written with
FracsOf(t) == IF t.ms = 0 THEN {0} ELSE FracSamples

At(y, mon, d, hh, mm, ss, ms) ==
    [ok |-> TRUE,
     sec |-> DaysFromCivil(y, mon, d) * 86400 + hh * 3600 + mm * 60 + ss,
     ms |-> ms]

\* thermostat-local wall clocks: a leap day late in the evening, the last
\* second of a year with a fraction, a morning
LocalSamples ==
    {At(2024, 2, 29, 23, 30, 0, 0), At(2024, 12, 31, 23, 59, 59, 123),
     At(2025, 3, 1, 0, 15, 7, 0)}

\* offsets of the thermostat and of the zone a text is written in (seconds)
OffsetSamples == {0 - 18000, 0, 3600, 19800}

NaiveRaws(t, n) ==
    {[text |-> WallText(t, sep, f), local |-> t] :
        sep \in {"T", " "}, f \in Forms(t, n)}

ZonedRaws(t, tz, n) ==
    {[text |-> WallText([t EXCEPT !.sec = @ - tz + z], "T", f) \o ZoneText(z),
      local |-> t] : z \in OffsetSamples, f \in Forms(t, n)}

\* texts that are no time: nothing, blanks, words, fields out of range
BadRaws ==
    {[text |-> x, local |-> NaN] :
        x \in {<<>>, <<" ", " ">>, <<"n", "/", "a">>, <<"x", "Z">>,
               <<"2", "0", "2", "4", "-", "1", "3", "-", "4", "5", "T",
                 "9", "9", ":", "9", "9", ":", "9", "9">>,
               <<"2", "0", "2", "4", "-", "1", "3", "-", "4", "5", "T",
                 "9", "9", ":", "9", "9", ":", "9", "9", "Z">>,
               <<"2", "0", "2", "4", "-", "0", "2", "-", "3", "0", "T",
                 "1", "0", ":", "0", "0", "+", "0", "1", ":", "0", "0">>}}

\* a read with a zoned and a naive end time of the same local time, or with texts that are no time
InitDecode ==
    /\ InitAdapter
    /\ nowMs = 0 /\ rawDur = 0
    /\ sentEnd = NoEnd /\ sentBy = "none"
    /\ RouterIdle
    /\ tzSec \in OffsetSamples
    /\ \/ \E t \in LocalSamples, z \in BOOLEAN :
             \E n \in FracsOf(t) :
                 \E zr \in ZonedRaws(t, tzSec, n), nr \in NaiveRaws(t, n) :
                     endRaw = IF z THEN [comfort |-> zr, boost |-> nr]
                              ELSE [comfort |-> nr, boost |-> zr]
       \/ \E b1 \in BadRaws, b2 \in BadRaws : endRaw = [comfort |-> b1, boost |-> b2]
    /\ endShown = NotShown
    /\ CacheIdle
    /\ RenameIdle
    /\ PrefillIdle

NextDecode == ShowEndTimes

SpecDecode == InitDecode /\ [][NextDecode]_vars

\* what the cloud reports of a thermostat in one read: TimeZone left out,
\* or an offset of one or two hours; SerialNumber left out, or one of two
ReadSamples ==
    {[online |-> TRUE, serial |-> x[1], tz |-> x[2]] :
        x \in {<<"", NoNum>>, <<"S", NoNum>>, <<"S", Num(3600 * 1000)>>,
               <<"T", Num(7200 * 1000)>>, <<"", Num(7200 * 1000)>>}}

\* the records of the thermostats as one poll cycle after the other reads them
NextCache == \E t \in Tids, read \in ReadSamples : UpsertCaches(t, read)

SpecCache == Init /\ [][NextCache]_vars

SpecPrefill == Init /\ [][NextPrefill]_vars

\* a name apply after a completed poll: the cache holds the cloud's name
InitRename ==
    /\ InitAdapter
    /\ nowMs = DayMs - 1
    /\ rawDur = 0 /\ tzSec = 0 /\ sentEnd = NoEnd /\ sentBy = "none"
    /\ ctxMode = "name"
    /\ ctxTid \in Tids
    /\ cloudName \in {<<"B", "a", "d">>, <<"K", "i", "t">>}
    /\ nameCache = cloudName
    /\ readName = NoText
    /\ renamedTo = NoText
    /\ PrefillIdle
    /\ staged \in StagedFor("name")
    /\ sent = <<>> /\ rpc = "start" /\ rres = "none"
    /\ display = OldDisplay /\ warns = 0
    /\ ctxControl = [val |-> TRUE, ack |-> FALSE]
    /\ DecodeIdle
    /\ CacheIdle

\* name applies and other commands next to the reads and upserts of the
\* poll cycles
NextRename ==
    \/ RouterCall
    \/ \E ok \in BOOLEAN : RouterSettle(ok)
    \/ \E mode \in {"schedule", "name", "eco"} : RouterNext(mode)
    \/ PollReadsName
    \/ PollUpsertsName

SpecRename == InitRename /\ [][NextRename]_vars

----------------------------------------------------------------------------
(* Properties *)

\* tasks waiting in ensureSession() for the login
EnsureWaiters == {k \in Tasks : call[k].pc = "awaitLogin"}

\* task k enters ensureSession() and has to wait for a login
EntersLogin(k) == call[k].pc # "awaitLogin" /\ call'[k].pc = "awaitLogin"

\* C1: single-flight login.  At most one SignIn request is without a response;
\* every caller that waits in ensureSession() waits for that one request; a
\* caller that arrives while it is in flight sends no request of its own; when
\* the response arrives all the waiting callers leave together, all with the
\* new session on success, all with the login's error on failure.
C1_SingleFlightLogin ==
    /\ [](/\ Cardinality(loginPending) <= 1
          /\ \A k \in EnsureWaiters :
                call[k].gen = loginInFlight /\ call[k].gen \in loginPending)
    /\ [][\A k \in Tasks :
            /\ EntersLogin(k) /\ loginInFlight # 0 =>
                  /\ loginGen' = loginGen
                  /\ call'[k].gen = loginInFlight
            /\ EntersLogin(k) /\ loginInFlight = 0 => loginGen' = loginGen + 1
            /\ k \in EnsureWaiters /\ call'[k].pc # "awaitLogin" =>
                  /\ call'[k].pc \in {"awaitResp", "err"}
                  /\ \A j \in EnsureWaiters : call'[j].pc = call'[k].pc
                  /\ call'[k].pc = "awaitResp" =>
                        sessionId' = call[k].gen /\ call'[k].tok = call[k].gen
                  /\ call'[k].pc = "err" =>
                        call'[k].err \in LoginOutcomes \ {"ok"}]_vars

\* the poll cycle and an apply command wait in ensureSession() for one login
C1_Witness ==
    /\ Cardinality(EnsureWaiters) >= 2
    /\ Cardinality(loginPending) = 1
    /\ sessionId = 0

\* the response of task k's request is 401/403
ExpiryOn(k) ==
    /\ call[k].pc = "awaitResp"
    /\ call'[k].pc \in {"awaitRelogin", "err"}
    /\ call'[k].err = "auth"

\* C2: retry once on expiry.  The request function of a call runs at most
\* twice.  A 401/403 on the first run invalidates the session and makes the
\* call wait for one re-login (at most one SignIn request is sent for it); the
\* re-login done, the request is run a second time with the new session.  A
\* 401/403 on the second run is thrown to the caller: no login, no third run.
C2_RetryOnce ==
    /\ [](\A k \in Tasks : call[k].att <= 2)
    /\ [][\A k \in Tasks :
            /\ ExpiryOn(k) /\ call[k].att = 1 =>
                  /\ sessionId' = 0
                  /\ call'[k].pc = "awaitRelogin"
                  /\ call'[k].att = 1
                  /\ call'[k].gen = loginInFlight'
                  /\ loginInFlight' \in loginPending'
                  /\ loginGen' <= loginGen + 1
            /\ ExpiryOn(k) /\ call[k].att = 2 =>
                  /\ call'[k].pc = "err"
                  /\ call'[k].att = 2
                  /\ UNCHANGED <<sessionId, loginVars>>
            /\ call[k].pc = "awaitRelogin" /\ call'[k].pc = "awaitResp" =>
                  /\ call'[k].att = 2
                  /\ call'[k].tok = sessionId' /\ sessionId' # 0
                  /\ loginGen' = loginGen]_vars

\* a call's retried request failed with 401/403 again and the error is thrown
C2_Witness ==
    \E k \in Tasks :
        /\ call[k].pc = "err"
        /\ call[k].att = 2
        /\ call[k].err = "auth"

TickEvents == {"tickDropped", "tickStarted"}

\* a timer tick fires while the previous cycle's work is still pending
TickWhilePending == pollInFlight /\ lastEv' \in TickEvents

\* C3: at most one poll cycle is in flight at any time, and a tick that fires
\* while a cycle is pending is dropped: it starts no cycle, sends no login and
\* no request, and leaves the pending cycle as it is.
C3_OnePollInFlight ==
    /\ [](activeCycles <= 1)
    /\ [][TickWhilePending => UNCHANGED <<clientVars, cycleVars>>]_vars

\* a tick was dropped while a cycle was waiting for the cloud
C3_Witness ==
    /\ lastEv = "tickDropped"
    /\ pollInFlight /\ ~unloading
    /\ activeCycles = 1
    /\ call[POLL].pc = "awaitResp"

\* the button that started the command in slot c
Button(c) == <<cmd[c].tid, cmd[c].mode>>

\* ends of a command that reached the router
RouterResults == {"applied", "applyRejected", "applyCommFailed", "ignored", "aborted"}

\* the command in slot c ends after it reached the router
RouterEnds(c) ==
    /\ cmd[c].pc # "idle"
    /\ cmd'[c].pc = "idle"
    /\ lastEv' \in RouterResults

\* C4: guaranteed control reset.  Every command that reached the router ends
\* with its apply control set to false, acknowledged: after a successful
\* update, after an update the vendor rejected, after a network error.  An
\* apply control is not true unless a command for it is still running.
C4_ControlReset ==
    /\ [](\A x \in DOMAIN control :
             control[x].val => \E c \in Cmds : cmd[c].pc # "idle" /\ Button(c) = x)
    /\ [][\A c \in Cmds : RouterEnds(c) => control'[Button(c)] = Released]_vars

\* an update failed with a network error and every control is released
C4_Witness ==
    /\ lastEv = "applyCommFailed"
    /\ infoConnection = "false"
    /\ \A x \in DOMAIN control : control[x] = Released

\* communication failures of a poll read
CommKinds == {"net", "http5xx", "auth"}

\* the poll read failed with an error of one of the kinds; the adapter runs
ReadFailure(kinds) ==
    /\ ppc = "read" /\ ppc' = "idle"
    /\ call[POLL].pc = "err"
    /\ call[POLL].err \in kinds
    /\ ~unloading

\* the poll read returned
ReadSuccess == ppc = "read" /\ ppc' # "read" /\ call[POLL].pc = "ok"

\* a poll cycle that read the thermostats ends; the adapter runs
CycleEnds == ppc \in {"prefillIO", "energy"} /\ ppc' = "idle" /\ ~unloading

\* the delay the documented backoff waits after n failed cycles in a row
MaxDelaySec == 3600
DocDelay(n) == Min(BaseIntervalSec * 2 ^ n, MaxDelaySec)

\* how the running adapter has scheduled the next cycle: setInterval only
NextCycle == IF pollTimer = "set" THEN "afterDelay" ELSE "none"

\* C5: backoff doubling.  A cycle that ends in a communication failure, or in
\* which no thermostat reported online, doubles the delay before the next
\* cycle, up to 3600 s.
C5_BackoffDoubling ==
    [][(ReadFailure(CommKinds) \/ (CycleEnds /\ ~sawOnline)) /\ pollTimer = "set" =>
          pollDelaySec' = Min(2 * pollDelaySec, MaxDelaySec)]_vars

C7_FixedSchedule ==
    pollTimer = "set" /\ pollFailCount >= 1
        /\ DocDelay(pollFailCount - 1) = MaxDelaySec
    => NextCycle = "noonOrMidnight"

Decode(e, z) == e.day * 86400 + e.hh * 3600 + e.mm * 60 + e.ss - z

\* C9: single application of the timezone offset.  The end time a handler
\* sends, read as a wall clock at the thermostat's offset, is the instant
\* now + d minutes, d the staged duration clamped to 1..1440.
C9_OffsetOnce ==
    sentBy # "none" =>
        Decode(sentEnd, tzSec) = (nowMs \div 1000) + ClampDur(rawDur) * 60

\* what the guards of onStateChange find for the command in slot c
KnownOffline(c) ==
    /\ cmd[c].pc = "connIO" /\ infoConnection = "true"
    /\ lastOnline[cmd[c].tid] = "false"
OnlineUnknown(c) ==
    /\ cmd[c].pc = "onlineIO"
    /\ onlineState[cmd[c].tid] # "true"
SerialUnresolved(c) ==
    /\ cmd[c].pc = "serialIO"
    /\ thermostatSerial[cmd[c].tid] = ""
    /\ objSerial[cmd[c].tid] \in {"none", ""}

\* C10: pre-emptive refusal.  A command whose thermostat is offline by the
\* cache, or by the stored state when the cache has no value (no stored value
\* counts as offline), or whose serial number is neither in the cache nor in
\* the stored object, ends at that guard: the router is not run, no login and
\* no request is sent, and the control is reset to false, acknowledged.
C10_PreemptiveRefusal ==
    [][\A c \in Cmds :
          (KnownOffline(c) \/ OnlineUnknown(c) \/ SerialUnresolved(c))
              /\ cmd'[c] # cmd[c] =>
                  /\ cmd'[c] = IdleCmd
                  /\ lastEv' \in {"blockedOffline", "blockedSerial"}
                  /\ control'[Button(c)] = Released
                  /\ UNCHANGED clientVars]_vars

\* a command for an offline thermostat with a known serial number was refused
C10_Witness ==
    /\ lastEv = "blockedOffline"
    /\ \E t \in Tids : lastOnline[t] = "false" /\ thermostatSerial[t] = "S"
    /\ \A x \in DOMAIN control : control[x] = Released
    /\ \A k \in Cmds : call[k] = NoCall

\* a router call whose handler has passed fields to updateThermostat
HasSent == Len(sent) >= 1

SentMinutes(e) == (Decode(e, 0) - nowMs \div 1000) \div 60

\* C12: comfort sanitation.  The ComfortSetpoint sent is an integer of
\* hundredths in 1200..3500: the staged setpoint clamped to 12..35 degrees
\* (a value that is no finite number counts as 22).  The ComfortEndTime sent
\* lies a whole number of minutes after now: the staged duration truncated to
\* an integer and clamped to 1..1440 (no finite number: 180).
C12_ComfortSanitation ==
    (ctxMode = "comfort" /\ HasSent) =>
        LET sp == sent[1].ComfortSetpoint
            d == SentMinutes(sent[1].ComfortEndTime)
            t == ToNumber(staged.comfortSetpoint)
            u == ToNumber(staged.comfortDuration)
        IN /\ sp \in 1200..3500
           /\ ~t.fin => sp = 2200
           /\ (t.fin /\ t.milli <= 12000) => sp = 1200
           /\ (t.fin /\ t.milli >= 35000) => sp = 3500
           /\ (t.fin /\ t.milli \in 12000..35000) => 10 * sp - t.milli \in (0 - 4)..5
           /\ Decode(sent[1].ComfortEndTime, 0) = nowMs \div 1000 + d * 60
           /\ d \in 1..1440
           /\ ~u.fin => d = 180
           /\ (u.fin /\ u.milli < 1000) => d = 1
           /\ (u.fin /\ u.milli >= 1440000) => d = 1440
           /\ (u.fin /\ u.milli \in 1000..1440000) =>
                 u.milli - 1000 * d \in 0..999

\* a comfort payload for the staged setpoint 40 and the duration 2000
C12_Witness ==
    /\ ctxMode = "comfort"
    /\ HasSent
    /\ staged.comfortSetpoint = Num(40000)
    /\ staged.comfortDuration = Num(2000000)
    /\ sent[1].ComfortSetpoint = 3500
    /\ SentMinutes(sent[1].ComfortEndTime) = 1440

\* the fields of a payload next to the display name
ModeFields(p) == DOMAIN p \ {"ThermostatName"}

C14_InvalidateOnEveryExpiry ==
    [][\A k \in Tasks : ExpiryOn(k) => sessionId' = 0]_vars

\* the response of task k's request is a failure other than 401/403
OtherFailureOn(k) ==
    /\ call[k].pc = "awaitResp"
    /\ call'[k].pc \notin {"awaitResp", "ok"}
    /\ call'[k].err \in ErrKinds \ {"auth"}

\* C15: a request that fails with anything but 401/403 (network error, 5xx,
\* vendor error code) ends the call with that error: the error is thrown to
\* the caller, the request function is not run again, no SignIn request is
\* sent and the session token stays as it is.
C15_OtherErrorsPropagate ==
    [][\A k \in Tasks :
          OtherFailureOn(k) =>
              /\ call'[k].pc = "err"
              /\ call'[k].att = call[k].att
              /\ UNCHANGED <<sessionId, loginVars>>]_vars

\* an updateThermostat call ended with a vendor error, the session is kept
C15_Witness ==
    \E k \in Cmds :
        /\ call[k].pc = "err"
        /\ call[k].err = "biz"
        /\ sessionId # 0
        /\ loginPending = {}

\* the body of a poll cycle ends, by success or by any failure
AnyCycleEnds == ppc # "idle" /\ ppc' = "idle"

\* the interval timer fires while the adapter runs and no cycle is pending
TickWhileFree == lastEv' \in TickEvents /\ ~unloading /\ ~pollInFlight

\* C16: a failure streak never stops scheduling.  When a poll cycle ends,
\* whatever its outcome, the in-flight marker is released; while the adapter
\* runs and is not unloading the interval timer stays armed; and a tick that
\* fires then, after any number of failed cycles in a row, starts a new cycle.
C16_StreakKeepsScheduling ==
    /\ [][AnyCycleEnds => ~pollInFlight' /\ activeCycles' = 0]_vars
    /\ []((phase = "running" /\ ~unloading) => pollTimer = "set")
    /\ []((phase = "running" /\ ppc = "idle") => ~pollInFlight)
    /\ [][TickWhileFree =>
            /\ lastEv' = "tickStarted"
            /\ pollInFlight'
            /\ ppc' = "read"
            /\ activeCycles' = 1]_vars

\* a cycle was started by a tick after more failures in a row than the
\* threshold, with info.connection already false
C16_Witness ==
    /\ lastEv = "tickStarted"
    /\ pollFailCount > POLL_FAIL_THRESHOLD
    /\ infoConnection = "false"
    /\ pollInFlight

\* the onStateChange invocations that have begun and not yet returned
Handling == {c \in Cmds : cmd[c].pc # "idle"}

\* C17: apply commands are serialized.  The handling of an apply command
\* begins only when no earlier apply command is still being handled, so that
\* at most one command is between its start and its control reset.
C17_CommandsSerialized == Cardinality(Handling) <= 1

\* C18: one command, one device update.  An onStateChange invocation calls
\* updateThermostat at most once, and exactly once when it reaches its
\* handler's update; of the requests sent for that call (the first, and the
\* one re-executed after a re-login) the cloud carries out at most one, and
\* exactly one when the call succeeds.
C18_OneCommandOneUpdate ==
    \A c \in Cmds :
        /\ cmd[c].calls <= 1
        /\ call[c].acc <= 1
        /\ cmd[c].pc = "update" => cmd[c].calls = 1
        /\ call[c].pc # "none" => cmd[c].calls = 1
        /\ call[c].pc = "ok" => call[c].acc = 1

\* a device update that met an expired session succeeded on its second run
C18_Witness ==
    \E c \in Cmds :
        /\ cmd[c].pc = "update"
        /\ call[c].pc = "ok"
        /\ call[c].att = 2
        /\ call[c].acc = 1
        /\ cmd[c].calls = 1

\* the handler's update succeeded and the handler has written its states
UpdateSucceeded == rpc = "done" /\ rres \in {"ok", "typeError"}

\* C19: mirror on success only.  Until the device update of a command has
\* succeeded, and when it fails, the display states are as they were before
\* the command.  After a successful comfort, boost or vacation command they
\* hold the values that were sent: endTime.comfort the ComfortEndTime,
\* endTime.boost the BoostEndTime, vacation.enabled, vacation.begin and
\* vacation.end the fields of the payload, and vacation.temperature (degrees,
\* here in thousandths) the VacationTemperature sent (hundredths).
C19_MirrorOnSuccessOnly ==
    /\ ~UpdateSucceeded => display = OldDisplay
    /\ UpdateSucceeded =>
        LET p == sent[1] IN
        /\ ctxMode = "comfort" => display.endComfort = p.ComfortEndTime
        /\ ctxMode = "boost" => display.endBoost = p.BoostEndTime
        /\ ctxMode = "vacation" =>
              /\ display.vacEnabled = p.VacationEnabled
              /\ "VacationBeginDay" \in DOMAIN p =>
                    display.vacBegin = p.VacationBeginDay
              /\ "VacationEndDay" \in DOMAIN p =>
                    display.vacEnd = p.VacationEndDay
              /\ display.vacTemp = 10 * p.VacationTemperature

\* a staged day that is given and is not of the form YYYY-MM-DD
BadDay(st) == st.has /\ Trim(st.val) # <<>> /\ ~isDay(Trim(st.val))

BadDays == (IF BadDay(staged.vacBegin) THEN 1 ELSE 0)
           + (IF BadDay(staged.vacEnd) THEN 1 ELSE 0)

\* C20: vacation apply.  Once the vacation handler has read its inputs it has
\* issued the device update, whatever the staged days are: a begin or end day
\* that is not YYYY-MM-DD costs one warning each and is sent as it is.  The
\* VacationTemperature sent is the staged temperature clamped to 5..35
\* degrees, as an integer of hundredths (500..3500).
C20_VacationApply ==
    (ctxMode = "vacation" /\ rpc # "start") =>
        /\ Len(sent) = 1
        /\ warns = BadDays
        /\ BadDay(staged.vacBegin) =>
              sent[1].VacationBeginDay = Trim(staged.vacBegin.val)
        /\ BadDay(staged.vacEnd) =>
              sent[1].VacationEndDay = Trim(staged.vacEnd.val)
        /\ LET v == sent[1].VacationTemperature
               t == ToNumber(staged.vacTemp)
           IN /\ v \in 500..3500
              /\ (t.fin /\ t.milli <= 5000) => v = 500
              /\ (t.fin /\ t.milli >= 35000) => v = 3500
              /\ (t.fin /\ t.milli \in 5000..35000) => 10 * v - t.milli \in (0 - 4)..5

\* a vacation update was issued with the begin day "2024/01/01" and the
\* staged temperature 40, after one warning
C20_Witness ==
    /\ ctxMode = "vacation"
    /\ HasSent
    /\ staged.vacBegin = Text(<<"2", "0", "2", "4", "/", "0", "1", "/", "0", "1">>)
    /\ ~BadDay(staged.vacEnd)
    /\ warns = 1
    /\ sent[1].VacationBeginDay = <<"2", "0", "2", "4", "/", "0", "1", "/", "0", "1">>
    /\ staged.vacTemp = Num(40000)
    /\ sent[1].VacationTemperature = 3500

\* the router call has ended without a rejection
ReturnedNormally == rpc = "done" /\ rres \in {"ok", "ignored", "aborted"}

\* the new name as staged is missing or has blanks only
EmptyNewName ==
    IF staged.nameValue.has THEN Trim(staged.nameValue.val) = <<>>
    ELSE Trim(baseName(nameCache, ctxTid)) = <<>>

\* C21: a name command whose new name is empty after trimming is aborted in
\* the step that reads it: updateThermostat is not called, the cached name,
\* the thermostatName state and every other display state stay as they were,
\* the router returns without an error, and the control is reset to false,
\* acknowledged.
C21_EmptyNameAborts ==
    [][(ctxMode = "name" /\ EmptyNewName /\ rpc = "start" /\ rpc' # "start") =>
          /\ sent' = <<>>
          /\ ReturnedNormally'
          /\ rres' = "aborted"
          /\ UNCHANGED <<nameCache, display, staged>>
          /\ ctxControl' = Released]_vars

\* a name command with a staged name of blanks only has ended
C21_Witness ==
    /\ ctxMode = "name"
    /\ staged.nameValue = Text(<<" ", " ">>)
    /\ nameCache = <<"B", "a", "d">>
    /\ rpc = "done"
    /\ sent = <<>>
    /\ ctxControl = Released

\* C22: an unknown mode tag is a no-op.  The router call for a mode folder
\* without a handler ends in its first step: updateThermostat is not called,
\* no cache, staged or display state changes and no warning is logged, the
\* router returns without an error, and the control is reset to false,
\* acknowledged.
C22_UnknownModeNoOp ==
    [][(ctxMode \notin {"schedule", "comfort", "manual", "boost", "eco",
                        "vacation", "name"} /\ rpc = "start" /\ rpc' # "start") =>
          /\ sent' = <<>>
          /\ ReturnedNormally'
          /\ rres' = "ignored"
          /\ UNCHANGED <<nameCache, display, staged, warns>>
          /\ ctxControl' = Released]_vars

\* the router call for the mode folder "bogus" has ended
C22_Witness ==
    /\ ctxMode = "bogus"
    /\ rpc = "done"
    /\ rres = "ignored"
    /\ sent = <<>>
    /\ ctxControl = Released

CommandStarts(c) == cmd[c].pc = "idle" /\ cmd'[c].pc # "idle"

\* an updateThermostat call is issued in this step
UpdateIssued(c) == call[c].pc = "none" /\ call'[c].pc # "none"

\* C24: apply-only writes.  An onStateChange invocation goes past its guards
\* only for an unacknowledged write to an apply.<mode>.apply control, and an
\* updateThermostat call is issued only by such an invocation, for the
\* thermostat and mode of that control; the event of an acknowledged write
\* (the reset of the control included) or of a write to another state starts
\* no invocation and issues no call.
C24_ApplyOnlyWrites ==
    [][/\ \A c \in Cmds : CommandStarts(c) =>
             /\ lastEv' = "step"
             /\ control'[<<cmd'[c].tid, cmd'[c].mode>>].ack = FALSE
       /\ \A c \in Cmds : UpdateIssued(c) =>
             /\ cmd[c].pc \in {"connIO", "onlineIO", "serialIO", "stagedIO"}
             /\ cmd'[c].pc = "update"
       /\ (\E key \in DOMAIN control :
               control'[key] # control[key] /\ control'[key].ack) =>
             \A c \in Cmds : ~CommandStarts(c) /\ ~UpdateIssued(c)]_vars

\* the event of the adapter's reset of a control has arrived and was ignored
C24_Witness ==
    /\ lastEv = "eventIgnored"
    /\ control[<<1, "schedule">>] = Released
    /\ NoneRunning
    /\ \A c \in Cmds : call[c].pc = "none"
    /\ infoConnection = "true"

\* C30: an onStateChange invocation goes past its guards, and so a device
\* update can be issued, only for a write that sets the apply control:
\* unacknowledged and with the value true.  An unacknowledged write of false
\* starts nothing.
C30_OnlyWhenSet ==
    [][\A c \in Cmds : CommandStarts(c) =>
          control'[<<cmd'[c].tid, cmd'[c].mode>>] = [val |-> TRUE, ack |-> FALSE]]_vars

\* an update was issued by an invocation that an unacknowledged write of
\* false has started
C30_FalseWriteApplied ==
    \E c \in Cmds :
        /\ cmd[c].pc = "update"
        /\ call[c].pc # "none"
        /\ control[<<cmd[c].tid, cmd[c].mode>>] = [val |-> FALSE, ack |-> FALSE]

\* the text YYYY-MM-DDTHH:mm:ss of a time value
LocalString(t) == WallText(t, "T", [secs |-> TRUE, frac |-> 0])

\* C25: decode equivalence.  A zoned end time (trailing Z or numeric offset,
\* whatever the offset) and a naive end time that stand for the same
\* thermostat-local time are shown as the same text, the local time in the
\* form YYYY-MM-DDTHH:mm:ss.
C25_DecodeEquivalence ==
    (endShown.done /\ endRaw.comfort.local.ok /\ endRaw.boost.local.ok) =>
        /\ endShown.comfort = endShown.boost
        /\ endShown.boost = LocalString(endRaw.boost.local)

\* C26: an end time that is empty or cannot be parsed, zoned or naive, is
\* shown as the empty text.
C26_UnparseableIsEmpty ==
    endShown.done =>
        \A f \in EndFields : ~endRaw[f].local.ok => endShown[f] = <<>>

\* C27: boost is limited to 60 minutes.  Whatever the staged boost duration,
\* the BoostEndTime sent lies at most 60 minutes after the time of the
\* command.
C27_BoostAtMostAnHour ==
    (ctxMode = "boost" /\ HasSent) =>
        Decode(sent[1].BoostEndTime, 0) <= nowMs \div 1000 + 60 * 60

\* a staged number without a usable numeric value: the state is missing, or
\* its value is null, empty or a text that is no number
Unusable(v) == v.kind \in {"missing", "null", "empty", "text"}

\* C29: staged-input defaults.  A handler whose staged number has no usable
\* numeric value sends the default of its mode: comfort setpoint 22 degrees
\* and duration 180 minutes, manual setpoint 21 degrees, boost duration 60
\* minutes, vacation temperature 12 degrees.
C29_StagedDefaults ==
    HasSent =>
        LET p == sent[1] IN
        /\ (ctxMode = "comfort" /\ Unusable(staged.comfortSetpoint)) =>
              p.ComfortSetpoint = 2200
        /\ (ctxMode = "comfort" /\ Unusable(staged.comfortDuration)) =>
              SentMinutes(p.ComfortEndTime) = 180
        /\ (ctxMode = "manual" /\ Unusable(staged.manualSetpoint)) =>
              p.ManualModeSetpoint = 2100
        /\ (ctxMode = "boost" /\ Unusable(staged.boostDuration)) =>
              SentMinutes(p.BoostEndTime) = 60
        /\ (ctxMode = "vacation" /\ Unusable(staged.vacTemp)) =>
              p.VacationTemperature = 1200

\* the last serial number among the records, "" when none has one
RECURSIVE LastSerial(_)
LastSerial(rs) ==
    IF rs = <<>> THEN ""
    ELSE IF rs[Len(rs)].serial # "" THEN rs[Len(rs)].serial
    ELSE LastSerial(SubSeq(rs, 1, Len(rs) - 1))

\* the records that report a finite TimeZone
RECURSIVE WithTz(_)
WithTz(rs) ==
    IF rs = <<>> THEN <<>>
    ELSE WithTz(SubSeq(rs, 1, Len(rs) - 1))
           \o (IF ToNumber(rs[Len(rs)].tz).fin THEN <<rs[Len(rs)]>> ELSE <<>>)

\* C28: thermostat record caching.  After any sequence of reads the cached
\* serial number is the one of the most recent read that had one, and the
\* cached time zone is the most recent finite TimeZone that was reported: a
\* read that omits a value keeps the cached one, a later value replaces it.
C28_CachesFollowReads ==
    \A t \in Tids :
        reads[t] # <<>> =>
            /\ thermostatSerial[t] = LastSerial(reads[t])
            /\ WithTz(reads[t]) # <<>> =>
                  thermostatTimeZoneSec[t] =
                      ToNumber(WithTz(reads[t])[Len(WithTz(reads[t]))].tz)

\* the serial number and the time zone a thermostat reports have changed
\* from one read to the next
C28_LaterReadDiffers ==
    \E t \in Tids :
        /\ Len(reads[t]) = 2
        /\ reads[t][1].serial = "S" /\ reads[t][2].serial = "T"
        /\ reads[t][1].tz = Num(3600 * 1000) /\ reads[t][2].tz = Num(7200 * 1000)
        /\ thermostatSerial[t] = "T"
        /\ thermostatTimeZoneSec[t] = [fin |-> TRUE, milli |-> 3600 * 1000]

\* the 401/403 of a request of task k that was sent under a token which is
\* no longer the session: another task has re-logged in meanwhile
StaleExpiryOn(k) ==
    /\ call[k].pc = "awaitResp"
    /\ call[k].tok # 0
    /\ sessionId # 0
    /\ call[k].tok # sessionId
    /\ call'[k].pc = "awaitRelogin"

\* C31: one expiry, one login.  A 401/403 for a request that was sent under
\* an older token, arriving after another request has re-logged in, leaves
\* the newer session in place and sends no SignIn request.
C31_OneExpiryOneLogin ==
    [][\A k \in Tasks : StaleExpiryOn(k) =>
          (sessionId' = sessionId /\ loginGen' = loginGen)]_vars

\* a second login is in flight for one expiry: the late 401/403 has discarded
\* the session of the first re-login
C31_SecondLogin ==
    \E k \in Tasks :
        /\ call[k].pc = "awaitRelogin"
        /\ sessionId = 0
        /\ loginGen >= 3
        /\ loginInFlight = loginGen

\* task k runs its request again after the re-login it has awaited
RetryOn(k) == call[k].pc = "awaitRelogin" /\ call'[k].pc = "awaitResp"

\* C35: the request that is run again after a re-login is sent with the
\* session token which that re-login has obtained: the token is present, it
\* is the client's session at that moment, and it is the one of the login
\* the call has awaited, which was started after the first run had failed.
C35_RetryCarriesNewToken ==
    [][\A k \in Tasks : RetryOn(k) =>
          /\ call'[k].tok # 0
          /\ call'[k].tok = sessionId'
          /\ call'[k].tok = call[k].gen
          /\ call'[k].att = 2]_vars

\* a request is in flight for the second time, under the token of the
\* re-login
C35_Witness ==
    \E k \in Tasks :
        /\ call[k].pc = "awaitResp"
        /\ call[k].att = 2
        /\ call[k].tok = sessionId
        /\ call[k].tok >= 2

\* the re-login that task k awaits after a 401/403 fails in this step
ReloginFailsOn(k) == call[k].pc = "awaitRelogin" /\ call'[k].pc = "err"

\* task k enters an authenticated request in this step
EntersRequest(k) == call[k].pc = "none" /\ call'[k].pc # "none"

\* C36: when the re-login after a 401/403 fails, the request is not run
\* again, the call ends with the 401/403 error of the request, the client
\* holds no session and no login is marked as in flight; the next
\* authenticated request then sends a SignIn request of its own.
C36_FailedRelogin ==
    [][/\ \A k \in Tasks : ReloginFailsOn(k) =>
             /\ call'[k].att = 1
             /\ call'[k].err = "auth"
             /\ call'[k].tok = 0
             /\ sessionId' = 0
             /\ loginInFlight' = 0
       /\ \A k \in Tasks :
             (EntersRequest(k) /\ sessionId = 0 /\ loginInFlight = 0) =>
                 /\ loginGen' = loginGen + 1
                 /\ loginInFlight' = loginGen'
                 /\ call'[k].pc = "awaitLogin"
                 /\ call'[k].gen = loginGen']_vars

\* a call has ended with the 401/403 of its only run after the re-login
\* failed; no session is held and no login is marked as in flight
C36_Witness ==
    \E k \in Tasks :
        /\ call[k].pc = "err" /\ call[k].err = "auth" /\ call[k].att = 1
        /\ sessionId = 0
        /\ loginInFlight = 0
        /\ loginPending = {}
        /\ loginGen >= 2

\* a payload is handed to updateThermostat in this step
SendsPayload == Len(sent') = Len(sent) + 1

\* C32: after a name apply succeeded the cached display name is the new name,
\* it stays the new name when the record of a poll read is upserted, and
\* every payload sent afterwards carries the new name
C32_RenameNotUndone ==
    [][/\ (renamedTo'.has /\ renamedTo' # renamedTo)
            => nameCache' = renamedTo'.val
       /\ (renamedTo.has /\ readName.has /\ ~readName'.has)
            => nameCache' = renamedTo.val
       /\ (renamedTo.has /\ SendsPayload /\ ctxMode # "name")
            => sent'[Len(sent')].ThermostatName = renamedTo.val]_vars

\* C32: a payload sent after the rename to "H" succeeded carries the old name,
\* which the cache took from a read that the cloud answered before the rename
C32_RenameUndone ==
    /\ renamedTo = Text(<<"H">>)
    /\ nameCache # <<"H">>
    /\ rpc = "update"
    /\ ctxMode # "name"
    /\ LastSent.ThermostatName = nameCache
    /\ LastSent.ThermostatName # <<"H">>

\* invocation c ends in this step with a communication error of its update
ApplyCommFails(c) ==
    /\ cmd[c].pc = "update"
    /\ call[c].pc = "err"
    /\ IsCommError(call[c].err)
    /\ cmd'[c] = IdleCmd

\* invocation c receives the value of info.connection in this step
ConnAnswered(c) == cmd[c].pc = "connIO" /\ cmd'[c].pc # "connIO"

\* C33: a communication error of an apply command clears info.connection in
\* the same step whatever the poll failure count is; while the flag is not
\* true a command that reads it ends with its button reset and no request is
\* sent; after startup the flag becomes true only when the read of a poll
\* cycle has succeeded
C33_ApplyErrorBlocks ==
    [][/\ \A c \in Cmds : ApplyCommFails(c) =>
            /\ infoConnection' = "false"
            /\ pollFailCount' = pollFailCount
       /\ \A c \in Cmds : (ConnAnswered(c) /\ infoConnection # "true") =>
            /\ cmd'[c] = IdleCmd
            /\ control'[<<cmd[c].tid, cmd[c].mode>>] = Released
            /\ call' = call
            /\ loginGen' = loginGen
            /\ infoConnection' = infoConnection
       /\ (phase = "running" /\ infoConnection # "true" /\ infoConnection' = "true")
            => (ppc = "read" /\ call[POLL].pc = "ok" /\ lastEv' = "pollReadOk")]_vars

\* a press was refused after a command's communication error had cleared the
\* flag while the poll failure count was below the threshold
C33_Witness ==
    /\ lastEv = "blockedConn"
    /\ infoConnection = "false"
    /\ pollFailCount < POLL_FAIL_THRESHOLD
    /\ phase = "running"
    /\ \A c \in Cmds : cmd[c] = IdleCmd
    /\ \E t \in Tids, m \in Modes : control[<<t, m>>] = Released

\* C34: no payload handed to updateThermostat carries the synthesized name
\* "Thermostat <id>" as its ThermostatName
C34_NoPlaceholderSent ==
    \A i \in 1..Len(sent) : sent[i].ThermostatName # DefaultName(ctxTid)

\* the name cache has no entry for the thermostat and the payload of a
\* command other than a rename carries the placeholder
C34_PlaceholderSent ==
    /\ nameCache = <<>>
    /\ ctxMode # "name"
    /\ rpc = "update"
    /\ LastSent.ThermostatName = DefaultName(ctxTid)

\* a command reaches updateThermostat although no record of its thermostat
\* has been upserted since the process started: the first read failed, the
\* online flag and the serial number came from the stored state and object
C34_CommandBeforeUpsert ==
    \E c \in Cmds : /\ cmd[c].pc = "update"
                    /\ ~IsBool(lastOnline[cmd[c].tid])
                    /\ pollFailCount >= 1

\* a request or a login is answered with a failure in this step
FailingResponse ==
    \/ \E k \in Tasks : /\ call[k].pc = "awaitResp"
                         /\ call'[k].pc \in {"err", "awaitRelogin"}
    \/ \E g \in loginPending : g \notin loginPending' /\ sessionId' # g

\* the run stays inside the bounds of the counters
InsideBounds == pollFailCount < MaxFails /\ loginGen < MaxLogins

\* C37: when from some point on no request and no login fails and the
\* adapter is not unloading, the read of a poll cycle succeeds at some time
\* and info.connection is true from then on, whatever happened before
C37_EventualReconnection ==
    ([]~unloading /\ []InsideBounds /\ <>[][~FailingResponse]_vars)
        => <>[](infoConnection = "true")

\* the same for the runs in which the login of onReady succeeded
C37_AfterStartupLogin ==
    ([]~unloading /\ []InsideBounds /\ <>[][~FailingResponse]_vars
        /\ [](phase # "failed"))
        => <>[](infoConnection = "true")

\* onReady has returned after its login failed: no timer, no poll cycle
C37_DeadAfterFailedLogin ==
    /\ phase = "failed"
    /\ pollTimer = "null"
    /\ infoConnection = "false"
    /\ ppc = "idle" /\ ~pollInFlight
    /\ loginPending = {}
    /\ ~unloading

\* the online bookkeeping of upsertThermostat runs in this step
OnlineNoted == ppc = "objIO" /\ ppc' = "prefillIO"

\* C38: the step that notes the online value of a thermostat logs the offline
\* warning exactly when the value noted before was online and the new one is
\* offline: not while the thermostat stays offline and not when the first
\* value noted is offline; the previous-online flag becomes the value of the
\* record, and no other step changes it or logs the warning
C38_OfflineWarningOnEdge ==
    [][/\ OnlineNoted =>
            /\ (lastEv' = "offlineWarning")
                    <=> (lastOnline[pIdx] = "true" /\ ~pollData.online)
            /\ lastOnline' = [lastOnline EXCEPT ![pIdx] = Tri(pollData.online)]
       /\ ~OnlineNoted =>
            /\ lastOnline' = lastOnline
            /\ lastEv' # "offlineWarning"]_vars

\* a thermostat noted as online before is noted as offline and the warning
\* has just been logged
C38_Witness ==
    /\ lastEv = "offlineWarning"
    /\ \E t \in Tids : /\ lastOnline[t] = "false"
                       /\ warnedOffline[t]
                       /\ onlineState[t] = "false"
    /\ ppc = "prefillIO"

\* setIfEmpty sends its write in this step
PrefillWrites == prefill.got /\ ~prefill'.got

\* C39: the prefill changes a staging field only when the field is empty
\* (no state, null or '') at the moment of the write; a value the user has
\* staged is never replaced, whenever the user's write arrived
C39_PrefillKeepsStaged ==
    [][PrefillWrites =>
          \A f \in PrefillFields :
              applyStore'[f] # applyStore[f]
                  => applyStore[f] \in {"missing", "null", "empty"}]_vars

\* setIfEmpty has read an empty field and the user has staged a value in it
\* since: the write that follows replaces the user's value
C39_StagedAfterRead ==
    /\ prefill.idx \in PrefillFields
    /\ prefill.got
    /\ prefill.seen \in {"missing", "null", "empty"}
    /\ applyStore[prefill.idx] = "user"

\* the energy read of the thermostat in turn has failed and writeEnergyStates
\* returns in this step
EnergyFails == ppc = "energy" /\ call[POLL].pc = "err" /\ call'[POLL] = NoCall

====
